---- MODULE Spec2Model ----
(***************************************************************************)
(* DcRefCell<T>: a cell that is a std::cell::RefCell<T> when compiled with *)
(* debug_assertions (the checked profile) and a std::cell::UnsafeCell<T>   *)
(* without them (the unchecked profile), together with its guards Ref and  *)
(* RefMut.  The checked profile forwards every operation to RefCell, so    *)
(* the borrow flag below follows RefCell's BorrowRef / BorrowRefMut        *)
(* bookkeeping at the places the wrapper calls it.                         *)
(*                                                                         *)
(* The wrapped value is a two-element sequence; a guard views a set of its *)
(* indices (the whole value after borrow/borrow_mut, a part after map,     *)
(* filter_map or map_split).                                               *)
(***************************************************************************)
EXTENDS Integers, Sequences, FiniteSets, Bags, TLC

\* ------------------------------------------------------------------ bounds
\* Largest number of guards alive at once (over both cells).  The borrow flag
\* is an isize; every unit of it is held by a guard in memory, so the flag
\* stays far from isize::MAX / isize::MIN and is modelled without wrap-around.
MaxGuards == 2

\* Largest number of Refs leaked (over both cells); with it the flag stays
\* below MaxGuards + MaxLeaks.
MaxLeaks == 2

\* ------------------------------------------------------------- the domain
Cells == {"a", "b"}
Indices == {1, 2}
\* T is instantiated as a pair over two element values; the cell's code is
\* generic in T and never inspects the value it wraps
Elem == {5, 7}
Value == [Indices -> Elem]
Views == SUBSET Indices
Whole == Indices
Profiles == {"checked", "unchecked"}
\* "" is the plain form of an operation, anything else the msg of its
\* _expect form.
Msgs == {"", "msg"}
\* the closures handed to replace_with, F: FnOnce(&mut T) -> T.
\*   rev             reads *x and returns its reverse
\*   bump            writes x[1] = x[2] through the &mut, then returns the
\*                   reverse of what *x was when it was called
\*   re_borrow       calls borrow() on the very cell being replaced, then
\*                   returns a clone of *x
\*   re_borrow_mut   the same with borrow_mut(), or with replace(..) or
\*                   swap(..), which begin by calling borrow_mut() on it
Reentrant == {"re_borrow", "re_borrow_mut"}
Closures == {"rev", "bump"} \cup Reentrant
\* closures that panic of their own: at once (panics), or after writing
\* x[1] = x[2] through the &mut (bump_panics)
PanickingClosures == {"panics", "bump_panics"}
GuardSet == [cell : Cells, kind : {"Ref", "RefMut"}, view : Views]
NoRet == << >>
\* Option<&U>, the result of a filter_map closure: None, or Some(part S)
None == << >>
Some(S) == << S >>
Option(T) == {None} \cup {Some(x) : x \in T}
OptionViews == Option(Views)
\* what is left of a cell that into_inner has consumed
Moved == << >>

VARIABLES
    profile,        \* cfg(debug_assertions): "checked" or "unchecked"
    value,          \* value[c]: the wrapped value of cell c
    borrow_state,   \* borrow_state[c]: RefCell's borrow flag (checked only;
                    \* the unchecked cell has no such field, kept at UNUSED)
    guards,         \* the bag of guards alive (GuardSet records)
    ub,             \* unchecked only: a call broke its safety contract; what
                    \* the program does from then on is undefined, and the
                    \* model follows it no further
    last            \* outcome of the last call, see Returned and Panicked

vars == << profile, value, borrow_state, guards, ub, last >>

\* ------------------------------------------------- RefCell's borrow flag
UNUSED == 0

is_writing(x) == x < UNUSED

is_reading(x) == x > UNUSED

BorrowRef_new_NoCheck(b) == [ok |-> TRUE, flag |-> b + 1]

\* BorrowRef::new, reached through try_borrow
BorrowRef_new(b) ==
    IF is_reading(b + 1) THEN [ok |-> TRUE, flag |-> b + 1]
    ELSE [ok |-> FALSE, flag |-> b]

BorrowRefMut_new_AllowShared(b) ==
    IF b >= UNUSED THEN [ok |-> TRUE, flag |-> UNUSED - 1]
    ELSE [ok |-> FALSE, flag |-> b]

BorrowRefMut_new_AllowNested(b) ==
    IF b <= UNUSED THEN [ok |-> TRUE, flag |-> b - 1]
    ELSE [ok |-> FALSE, flag |-> b]

BorrowRefMut_new_Partial(b) ==
    IF b = UNUSED THEN [ok |-> TRUE, flag |-> UNUSED - 1]
    ELSE [ok |-> FALSE, flag |-> b - 1]

\* BorrowRefMut::new, reached through try_borrow_mut
BorrowRefMut_new(b) ==
    IF b = UNUSED THEN [ok |-> TRUE, flag |-> UNUSED - 1]
    ELSE [ok |-> FALSE, flag |-> b]

BorrowRef_drop_Reset(b) == UNUSED

BorrowRef_drop_Forgets(b) == b

\* Drop for BorrowRef (a Ref leaves scope)
BorrowRef_drop(b) == b - 1

BorrowRef_clone_Forgets(b) == b

\* Clone for BorrowRef (Ref::clone, Ref::map_split)
BorrowRef_clone(b) == b + 1

BorrowRefMut_drop_Reset(b) == UNUSED

BorrowRefMut_drop_Forgets(b) == b

\* Drop for BorrowRefMut (a RefMut leaves scope)
BorrowRefMut_drop(b) == b + 1

BorrowRefMut_clone_Forgets(b) == b

\* Clone for BorrowRefMut (RefMut::map_split)
BorrowRefMut_clone(b) == b - 1

\* ------------------------------------------------------------- helpers
\* guards is a bag of GuardSet records: one copy per guard alive
NumGuards == BagCardinality(guards)

LiveGuards == BagToSet(guards)

\* number of live guards of kind k on cell c
Live(c, k) ==
    BagCardinality([g \in {x \in LiveGuards : x.cell = c /\ x.kind = k} |-> guards[g]])

\* cell c has a guard alive
Borrowed(c) == \E g \in LiveGuards : g.cell = c

Guard(c, k, v) == [cell |-> c, kind |-> k, view |-> v]

Add(gs, g) == gs (+) SetToBag({g})

Remove(gs, g) == gs (-) SetToBag({g})

\* what a guard dereferences to: the viewed part of the wrapped value
Deref(g) == [i \in g.view |-> value[g.cell][i]]

mem_replace_ReturnsNew(dest, src) == [dest |-> src, ret |-> src]

\* mem::replace(dest, src): what dest holds afterwards and what is returned
mem_replace(dest, src) == [dest |-> src, ret |-> dest]

mem_swap_Copies(x, y) == [x |-> y, y |-> y]

\* mem::swap(x, y): what x and y hold afterwards
mem_swap(x, y) == [x |-> y, y |-> x]

\* cell c has not been consumed by into_inner
Alive(c) == value[c] # Moved

\* what a replace_with closure returns for the value v it is given
Apply(f, v) ==
    CASE f \in {"rev", "bump"} -> [i \in Indices |-> v[3 - i]]
      [] OTHER -> v

\* what a replace_with closure leaves in *x, which held v when it was called
Through(f, v) == IF f \in {"bump", "bump_panics"} THEN [v EXCEPT ![1] = v[2]] ELSE v

\* the call a replace_with closure makes on the cell being replaced, whose
\* flag is b while the closure runs: whether it returns, the error it panics
\* on otherwise, and the flag once the guard it took is dropped again
Reenter(f, b) ==
    CASE f = "re_borrow" ->
            LET r == BorrowRef_new(b) IN
            [ok |-> r.ok, err |-> "BorrowError",
             flag |-> IF r.ok THEN BorrowRef_drop(r.flag) ELSE r.flag]
      [] f = "re_borrow_mut" ->
            LET r == BorrowRefMut_new(b) IN
            [ok |-> r.ok, err |-> "BorrowMutError",
             flag |-> IF r.ok THEN BorrowRefMut_drop(r.flag) ELSE r.flag]
      [] OTHER -> [ok |-> TRUE, err |-> "", flag |-> b]

\* the call op on cell c (and cell d, for a call on two cells) returned ret
Returned(op, c, d, ret) ==
    [op |-> op, cell |-> c, other |-> d, ok |-> TRUE,
     panic |-> "", msg |-> "", ret |-> ret, arg |-> NoRet]

\* the same for a call that was given the value or closure arg
ReturnedOf(op, c, arg, ret) == [Returned(op, c, c, ret) EXCEPT !.arg = arg]

\* the call op panicked on the error e: Result::unwrap() reports e itself,
\* Result::expect(m) reports the caller's message m
Panicked(op, c, d, e, m) ==
    [op |-> op, cell |-> c, other |-> d, ok |-> FALSE,
     panic |-> IF m = "" THEN e ELSE m, msg |-> m, ret |-> NoRet, arg |-> NoRet]

\* ------------------------------------------------------------ the state
\* DcRefCell::new for each cell
Init ==
    /\ profile \in Profiles
    /\ value \in [Cells -> Value]
    /\ borrow_state = [c \in Cells |-> UNUSED]
    /\ guards = EmptyBag
    /\ ub = FALSE
    /\ last = Returned("new", "a", "a", NoRet)

\* The cell and its guards are compiled twice, under cfg(debug_assertions)
\* and under cfg(not(debug_assertions)).  An operation X whose code depends
\* on the build is written X_in(p, ..), the operation as compiled for profile
\* p; X(..) is X_in of the profile of the build that runs.

\* DcRefCell::borrow and borrow_expect, which differ only in the message m
\* of a panic ("" for borrow)
borrow_in(p, c) ==
    /\ ~ub
    /\ Alive(c)
    /\ IF p = "checked"
       THEN LET r == BorrowRef_new(borrow_state[c]) IN
            /\ r.ok => NumGuards < MaxGuards
            /\ borrow_state' = [borrow_state EXCEPT ![c] = r.flag]
            /\ guards' = IF r.ok THEN Add(guards, Guard(c, "Ref", Whole)) ELSE guards
            /\ IF r.ok THEN last' = Returned("borrow", c, c, NoRet)
               ELSE \E m \in Msgs : last' = Panicked("borrow", c, c, "BorrowError", m)
            /\ ub' = ub
       ELSE /\ NumGuards < MaxGuards
            /\ guards' = Add(guards, Guard(c, "Ref", Whole))
            /\ ub' = (Live(c, "RefMut") > 0)
            /\ last' = Returned("borrow", c, c, NoRet)
            /\ borrow_state' = borrow_state
    /\ UNCHANGED << profile, value >>

borrow(c) == borrow_in(profile, c)

\* DcRefCell::borrow_mut and borrow_mut_expect, which differ only in the
\* message m of a panic ("" for borrow_mut)
borrow_mut_in(p, c) ==
    /\ ~ub
    /\ Alive(c)
    /\ IF p = "checked"
       THEN LET r == BorrowRefMut_new(borrow_state[c]) IN
            /\ r.ok => NumGuards < MaxGuards
            /\ borrow_state' = [borrow_state EXCEPT ![c] = r.flag]
            /\ guards' = IF r.ok THEN Add(guards, Guard(c, "RefMut", Whole)) ELSE guards
            /\ IF r.ok THEN last' = Returned("borrow_mut", c, c, NoRet)
               ELSE \E m \in Msgs :
                        last' = Panicked("borrow_mut", c, c, "BorrowMutError", m)
            /\ ub' = ub
       ELSE /\ NumGuards < MaxGuards
            /\ guards' = Add(guards, Guard(c, "RefMut", Whole))
            /\ ub' = Borrowed(c)
            /\ last' = Returned("borrow_mut", c, c, NoRet)
            /\ borrow_state' = borrow_state
    /\ UNCHANGED << profile, value >>

borrow_mut_Checks(c) == borrow_mut_in("checked", c)

borrow_mut(c) == borrow_mut_in(profile, c)

\* a Ref leaves scope
drop_Ref_in(p, g) ==
    /\ ~ub
    /\ g.kind = "Ref"
    /\ BagIn(g, guards)
    /\ guards' = Remove(guards, g)
    /\ borrow_state' = IF p = "checked"
                       THEN [borrow_state EXCEPT ![g.cell] = BorrowRef_drop(@)]
                       ELSE borrow_state
    /\ last' = Returned("drop_Ref", g.cell, g.cell, NoRet)
    /\ UNCHANGED << profile, value, ub >>

drop_Ref(g) == drop_Ref_in(profile, g)

\* a RefMut leaves scope
drop_RefMut_in(p, g) ==
    /\ ~ub
    /\ g.kind = "RefMut"
    /\ BagIn(g, guards)
    /\ guards' = Remove(guards, g)
    /\ borrow_state' = IF p = "checked"
                       THEN [borrow_state EXCEPT ![g.cell] = BorrowRefMut_drop(@)]
                       ELSE borrow_state
    /\ last' = Returned("drop_RefMut", g.cell, g.cell, NoRet)
    /\ UNCHANGED << profile, value, ub >>

drop_RefMut(g) == drop_RefMut_in(profile, g)

\* Ref::clone(&orig)
Ref_clone_in(p, g) ==
    /\ ~ub
    /\ g.kind = "Ref"
    /\ BagIn(g, guards)
    /\ NumGuards < MaxGuards
    /\ guards' = Add(guards, g)
    /\ borrow_state' = IF p = "checked"
                       THEN [borrow_state EXCEPT ![g.cell] = BorrowRef_clone(@)]
                       ELSE borrow_state
    /\ last' = Returned("Ref_clone", g.cell, g.cell, NoRet)
    /\ UNCHANGED << profile, value, ub >>

Ref_clone(g) == Ref_clone_in(profile, g)

Ref_map_Duplicates(g, S) ==
    /\ ~ub
    /\ g.kind = "Ref"
    /\ BagIn(g, guards)
    /\ S \subseteq g.view
    /\ NumGuards < MaxGuards
    /\ guards' = Add(guards, Guard(g.cell, "Ref", S))
    /\ last' = Returned("Ref_map", g.cell, g.cell, NoRet)
    /\ UNCHANGED << profile, value, borrow_state, ub >>

\* Ref::map(orig, f), f returning the part S of what orig views
Ref_map(g, S) ==
    /\ ~ub
    /\ g.kind = "Ref"
    /\ BagIn(g, guards)
    /\ S \subseteq g.view
    /\ guards' = Add(Remove(guards, g), Guard(g.cell, "Ref", S))
    /\ last' = Returned("Ref_map", g.cell, g.cell, NoRet)
    /\ UNCHANGED << profile, value, borrow_state, ub >>

\* Ref::filter_map(orig, f), f returning r: Some(a part of what orig views),
\* and the result is Ok(the guard of that part), or None, and the result is
\* Err(orig)
Ref_filter_map(g, r) ==
    /\ ~ub
    /\ g.kind = "Ref"
    /\ BagIn(g, guards)
    /\ r # None => r[1] \subseteq g.view
    /\ guards' = IF r # None THEN Add(Remove(guards, g), Guard(g.cell, "Ref", r[1]))
                 ELSE Add(Remove(guards, g), g)
    /\ last' = Returned("Ref_filter_map", g.cell, g.cell, IF r # None THEN "Ok" ELSE "Err")
    /\ UNCHANGED << profile, value, borrow_state, ub >>

\* Ref::map_split(orig, f), f returning the parts (A, B) of what orig views
Ref_map_split_in(p, g, A, B) ==
    /\ ~ub
    /\ g.kind = "Ref"
    /\ BagIn(g, guards)
    /\ NumGuards < MaxGuards
    /\ A \subseteq g.view
    /\ B \subseteq g.view
    /\ guards' = Add(Add(Remove(guards, g), Guard(g.cell, "Ref", A)),
                     Guard(g.cell, "Ref", B))
    /\ borrow_state' = IF p = "checked"
                       THEN [borrow_state EXCEPT ![g.cell] = BorrowRef_clone(@)]
                       ELSE borrow_state
    /\ last' = Returned("Ref_map_split", g.cell, g.cell, NoRet)
    /\ UNCHANGED << profile, value, ub >>

Ref_map_split(g, A, B) == Ref_map_split_in(profile, g, A, B)

\* RefMut::map(orig, f), f returning the part S of what orig views
RefMut_map(g, S) ==
    /\ ~ub
    /\ g.kind = "RefMut"
    /\ BagIn(g, guards)
    /\ S \subseteq g.view
    /\ guards' = Add(Remove(guards, g), Guard(g.cell, "RefMut", S))
    /\ last' = Returned("RefMut_map", g.cell, g.cell, NoRet)
    /\ UNCHANGED << profile, value, borrow_state, ub >>

RefMut_filter_map_LosesOrig(g, r) ==
    /\ ~ub
    /\ g.kind = "RefMut"
    /\ BagIn(g, guards)
    /\ r # None => r[1] \subseteq g.view
    /\ guards' = IF r # None THEN Add(Remove(guards, g), Guard(g.cell, "RefMut", r[1]))
                 ELSE Remove(guards, g)
    /\ last' = Returned("RefMut_filter_map", g.cell, g.cell, IF r # None THEN "Ok" ELSE "Err")
    /\ UNCHANGED << profile, value, borrow_state, ub >>

\* RefMut::filter_map(orig, f), f returning r: Some(a part of what orig views),
\* and the result is Ok(the guard of that part), or None, and the result is
\* Err(orig)
RefMut_filter_map(g, r) ==
    /\ ~ub
    /\ g.kind = "RefMut"
    /\ BagIn(g, guards)
    /\ r # None => r[1] \subseteq g.view
    /\ guards' = IF r # None THEN Add(Remove(guards, g), Guard(g.cell, "RefMut", r[1]))
                 ELSE Add(Remove(guards, g), g)
    /\ last' = Returned("RefMut_filter_map", g.cell, g.cell, IF r # None THEN "Ok" ELSE "Err")
    /\ UNCHANGED << profile, value, borrow_state, ub >>

\* RefMut::map_split(orig, f).  f is FnOnce(&mut T) -> (&mut U, &mut V): the
\* two parts it returns are disjoint, as the compiler demands of f.
RefMut_map_split_in(p, g, A, B) ==
    /\ ~ub
    /\ g.kind = "RefMut"
    /\ BagIn(g, guards)
    /\ NumGuards < MaxGuards
    /\ A \subseteq g.view
    /\ B \subseteq g.view
    /\ A \cap B = {}
    /\ guards' = Add(Add(Remove(guards, g), Guard(g.cell, "RefMut", A)),
                     Guard(g.cell, "RefMut", B))
    /\ borrow_state' = IF p = "checked"
                       THEN [borrow_state EXCEPT ![g.cell] = BorrowRefMut_clone(@)]
                       ELSE borrow_state
    /\ last' = Returned("RefMut_map_split", g.cell, g.cell, NoRet)
    /\ UNCHANGED << profile, value, ub >>

RefMut_map_split(g, A, B) == RefMut_map_split_in(profile, g, A, B)

deref_mut_Spills(g, i, e) ==
    /\ ~ub
    /\ g.kind = "RefMut"
    /\ BagIn(g, guards)
    /\ i \in g.view
    /\ value' = [value EXCEPT ![g.cell] = [j \in Indices |-> e]]
    /\ last' = Returned("deref_mut", g.cell, g.cell, NoRet)
    /\ UNCHANGED << profile, borrow_state, guards, ub >>

\* DerefMut for RefMut: *guard = ..., writing element i of what it views
deref_mut(g, i, e) ==
    /\ ~ub
    /\ g.kind = "RefMut"
    /\ BagIn(g, guards)
    /\ i \in g.view
    /\ value' = [value EXCEPT ![g.cell][i] = e]
    /\ last' = Returned("deref_mut", g.cell, g.cell, NoRet)
    /\ UNCHANGED << profile, borrow_state, guards, ub >>

\* DcRefCell::replace and replace_expect: the two differ only in the message
\* m of a panic ("" for replace).
\* mem::replace(&mut *self.borrow_mut(), t); the guard is a temporary of the
\* call and is dropped when it returns.  The argument t is looked at only
\* once borrow_mut has returned.
replace_in(p, c) ==
    /\ ~ub
    /\ Alive(c)
    /\ IF p = "checked"
       THEN LET r == BorrowRefMut_new(borrow_state[c]) IN
            IF r.ok
            THEN /\ \E t \in Value :
                       LET x == mem_replace(value[c], t) IN
                       /\ value' = [value EXCEPT ![c] = x.dest]
                       /\ last' = ReturnedOf("replace", c, t, x.ret)
                 /\ borrow_state' = [borrow_state EXCEPT ![c] = BorrowRefMut_drop(r.flag)]
                 /\ ub' = ub
            ELSE /\ \E m \in Msgs : last' = Panicked("replace", c, c, "BorrowMutError", m)
                 /\ borrow_state' = [borrow_state EXCEPT ![c] = r.flag]
                 /\ UNCHANGED << value, ub >>
       ELSE /\ \E t \in Value :
                  LET x == mem_replace(value[c], t) IN
                  /\ value' = [value EXCEPT ![c] = x.dest]
                  /\ last' = ReturnedOf("replace", c, t, x.ret)
            /\ ub' = Borrowed(c)
            /\ borrow_state' = borrow_state
    /\ UNCHANGED << profile, guards >>

replace(c) == replace_in(profile, c)

\* DcRefCell::replace_with and replace_with_expect, which differ only in the
\* message m of a panic at borrow_mut ("" for replace_with):
\* the guard of `&mut *self.borrow_mut()` lives to the end of the function,
\* so f runs under it; a panic inside f unwinds through the guard, dropping
\* it.  mem::replace returns what *mut_borrow holds once f has returned.
\* Unchecked, a closure that reaches the cell again while f holds the &mut
\* breaks the safety contract.  The closure f is called only once borrow_mut
\* has returned.  F is the set of closures the caller may give; a closure
\* that panics of its own does so after whatever it wrote through the &mut.
replace_with_of(p, c, F) ==
    /\ ~ub
    /\ Alive(c)
    /\ IF p = "checked"
       THEN LET r == BorrowRefMut_new(borrow_state[c]) IN
            IF ~r.ok
            THEN /\ \E m \in Msgs :
                        last' = Panicked("replace_with", c, c, "BorrowMutError", m)
                 /\ borrow_state' = [borrow_state EXCEPT ![c] = r.flag]
                 /\ UNCHANGED << value, ub >>
            ELSE \E f \in F :
                 LET inner == Reenter(f, r.flag) IN
                 /\ borrow_state' =
                        [borrow_state EXCEPT ![c] = BorrowRefMut_drop(inner.flag)]
                 /\ IF f \in PanickingClosures
                    THEN /\ value' = [value EXCEPT ![c] = Through(f, value[c])]
                         /\ last' = [Panicked("replace_with", c, c, "panic", "")
                                        EXCEPT !.arg = f]
                    ELSE IF inner.ok
                    THEN LET x == mem_replace(Through(f, value[c]), Apply(f, value[c])) IN
                         /\ value' = [value EXCEPT ![c] = x.dest]
                         /\ last' = ReturnedOf("replace_with", c, f, x.ret)
                    ELSE /\ value' = value
                         /\ last' = [Panicked("replace_with", c, c, inner.err, "")
                                        EXCEPT !.arg = f]
                 /\ ub' = ub
       ELSE \E f \in F :
            /\ IF f \in PanickingClosures
               THEN /\ value' = [value EXCEPT ![c] = Through(f, value[c])]
                    /\ last' = [Panicked("replace_with", c, c, "panic", "")
                                   EXCEPT !.arg = f]
               ELSE LET x == mem_replace(Through(f, value[c]), Apply(f, value[c])) IN
                    /\ value' = [value EXCEPT ![c] = x.dest]
                    /\ last' = ReturnedOf("replace_with", c, f, x.ret)
            /\ ub' = (Borrowed(c) \/ f \in Reentrant)
            /\ borrow_state' = borrow_state
    /\ UNCHANGED << profile, guards >>

\* replace_with given a closure that returns or that calls back into the cell
replace_with_in(p, c) == replace_with_of(p, c, Closures)

\* replace_with given any closure, also one that panics of its own
replace_with_any(c) == replace_with_of(profile, c, Closures \cup PanickingClosures)

replace_with(c) == replace_with_in(profile, c)

\* DcRefCell::swap and swap_expect, which differ only in the message m of a
\* panic ("" for swap):
\* mem::swap(&mut *self.borrow_mut(), &mut *other.borrow_mut()); the first
\* guard is taken before the second, and a panic at the second unwinds
\* through the first, dropping it
swap_in(p, c, d) ==
    /\ ~ub
    /\ Alive(c)
    /\ Alive(d)
    /\ IF p = "checked"
       THEN LET r1 == BorrowRefMut_new(borrow_state[c])
                b1 == [borrow_state EXCEPT ![c] = r1.flag]
                r2 == BorrowRefMut_new(b1[d])
                b2 == [b1 EXCEPT ![d] = r2.flag]
            IN  IF ~r1.ok
                THEN /\ \E m \in Msgs : last' = Panicked("swap", c, d, "BorrowMutError", m)
                     /\ borrow_state' = b1
                     /\ UNCHANGED << value, ub >>
                ELSE IF ~r2.ok
                THEN /\ \E m \in Msgs : last' = Panicked("swap", c, d, "BorrowMutError", m)
                     /\ borrow_state' = [b2 EXCEPT ![c] = BorrowRefMut_drop(@)]
                     /\ UNCHANGED << value, ub >>
                ELSE /\ value' = [value EXCEPT ![c] = mem_swap(value[c], value[d]).x,
                                                ![d] = mem_swap(value[c], value[d]).y]
                     /\ borrow_state' = [[b2 EXCEPT ![d] = BorrowRefMut_drop(@)]
                                            EXCEPT ![c] = BorrowRefMut_drop(@)]
                     /\ last' = Returned("swap", c, d, NoRet)
                     /\ ub' = ub
       ELSE /\ value' = [value EXCEPT ![c] = mem_swap(value[c], value[d]).x,
                                       ![d] = mem_swap(value[c], value[d]).y]
            /\ ub' = (c = d \/ Borrowed(c) \/ Borrowed(d))
            /\ last' = Returned("swap", c, d, NoRet)
            /\ borrow_state' = borrow_state
    /\ UNCHANGED << profile, guards >>

swap(c, d) == swap_in(profile, c, d)

get_mut_Borrows(c, i, e) ==
    /\ ~ub
    /\ Alive(c)
    /\ ~Borrowed(c)
    /\ value' = [value EXCEPT ![c][i] = e]
    /\ borrow_state' = [borrow_state EXCEPT ![c] = BorrowRefMut_new(@).flag]
    /\ last' = Returned("get_mut", c, c, NoRet)
    /\ UNCHANGED << profile, guards, ub >>

\* DcRefCell::get_mut: *cell.get_mut() = ..., writing element i.  &mut self
\* is only to be had while no guard borrows the cell.
get_mut(c, i, e) ==
    /\ ~ub
    /\ Alive(c)
    /\ ~Borrowed(c)
    /\ value' = [value EXCEPT ![c][i] = e]
    /\ last' = Returned("get_mut", c, c, NoRet)
    /\ UNCHANGED << profile, borrow_state, guards, ub >>

\* DcRefCell::into_inner: self is moved in, so no guard borrows the cell, and
\* the cell is gone afterwards
into_inner(c) ==
    /\ ~ub
    /\ Alive(c)
    /\ ~Borrowed(c)
    /\ value' = [value EXCEPT ![c] = Moved]
    /\ last' = Returned("into_inner", c, c, value[c])
    /\ UNCHANGED << profile, borrow_state, guards, ub >>

\* ------------------------------------ operations derived from the guards
\* DcRefCell::new: the cell wrapping v; RefCell::new starts the flag at
\* UNUSED, the unchecked cell is the UnsafeCell alone
new(p, v) ==
    IF p = "checked" THEN [value |-> v, borrow_state |-> UNUSED]
                     ELSE [value |-> v]

\* T's Ord::cmp; T is a two-element sequence, compared element by element,
\* the first difference deciding
Ord_cmp(x, y) ==
    IF x[1] < y[1] THEN "Less"
    ELSE IF x[1] > y[1] THEN "Greater"
    ELSE IF x[2] < y[2] THEN "Less"
    ELSE IF x[2] > y[2] THEN "Greater"
    ELSE "Equal"

\* T's PartialOrd::partial_cmp; T's order is total
PartialOrd_partial_cmp(x, y) == Some(Ord_cmp(x, y))

\* T's PartialEq::eq, the operator ==
PartialEq_eq(x, y) == x = y

\* T's PartialOrd::lt, the operator <
PartialOrd_lt(x, y) == Ord_cmp(x, y) = "Less"

\* What a derived operation returns is recorded under the name of its type:
\* [bool |-> ..], [Ordering |-> ..], [Option |-> ..], [ptr |-> ..], and a
\* new cell as the record of its fields.

\* the shape shared by eq, partial_cmp, lt, le, gt, ge, cmp and their _expect
\* forms (which differ only in the message m of a panic):
\* `*self.borrow() OP *other.borrow()`, res being what OP makes of the two
\* wrapped values.  self.borrow() is taken first and other.borrow() second;
\* a panic at the second unwinds through the first guard, dropping it; both
\* guards are temporaries, dropped in reverse order when the statement ends.
compare(p, op, c, d, res) ==
    /\ ~ub
    /\ Alive(c)
    /\ Alive(d)
    /\ IF p = "checked"
       THEN /\ ub' = ub
            /\ LET r1 == BorrowRef_new(borrow_state[c])
                   b1 == [borrow_state EXCEPT ![c] = r1.flag]
                   r2 == BorrowRef_new(b1[d])
                   b2 == [b1 EXCEPT ![d] = r2.flag]
               IN  IF ~r1.ok
                   THEN /\ \E m \in Msgs :
                               last' = Panicked(op, c, d, "BorrowError", m)
                        /\ borrow_state' = b1
                   ELSE IF ~r2.ok
                   THEN /\ \E m \in Msgs :
                               last' = Panicked(op, c, d, "BorrowError", m)
                        /\ borrow_state' = [b2 EXCEPT ![c] = BorrowRef_drop(@)]
                   ELSE /\ last' = Returned(op, c, d, res)
                        /\ borrow_state' = [[b2 EXCEPT ![d] = BorrowRef_drop(@)]
                                               EXCEPT ![c] = BorrowRef_drop(@)]
       ELSE /\ last' = Returned(op, c, d, res)
            /\ ub' = (Live(c, "RefMut") > 0 \/ Live(d, "RefMut") > 0)
            /\ borrow_state' = borrow_state
    /\ UNCHANGED << profile, value, guards >>

\* DcRefCell::eq and eq_expect: *self.borrow() == *other.borrow()
eq(c, d) ==
    compare(profile, "eq", c, d, [bool |-> PartialEq_eq(value[c], value[d])])

\* DcRefCell::partial_cmp and partial_cmp_expect:
\* self.borrow().partial_cmp(&*other.borrow())
partial_cmp(c, d) ==
    compare(profile, "partial_cmp", c, d,
            [Option |-> PartialOrd_partial_cmp(value[c], value[d])])

\* DcRefCell::lt and lt_expect: *self.borrow() < *other.borrow()
lt(c, d) ==
    compare(profile, "lt", c, d, [bool |-> PartialOrd_lt(value[c], value[d])])

\* DcRefCell::le and le_expect: *self.borrow() < *other.borrow()
le(c, d) ==
    compare(profile, "le", c, d, [bool |-> PartialOrd_lt(value[c], value[d])])

\* DcRefCell::gt and gt_expect: *self.borrow() < *other.borrow()
gt(c, d) ==
    compare(profile, "gt", c, d, [bool |-> PartialOrd_lt(value[c], value[d])])

\* DcRefCell::ge and ge_expect: *self.borrow() < *other.borrow()
ge(c, d) ==
    compare(profile, "ge", c, d, [bool |-> PartialOrd_lt(value[c], value[d])])

\* DcRefCell::cmp and cmp_expect: self.borrow().cmp(&*other.borrow())
cmp(c, d) ==
    compare(profile, "cmp", c, d, [Ordering |-> Ord_cmp(value[c], value[d])])

\* DcRefCell::clone and clone_expect, which differ only in the message m of a
\* panic ("" for clone): Self::new(self.borrow_mut().clone()); the guard is a
\* temporary, dropped when the statement ends.  Unchecked, the &mut that
\* borrow_mut hands out while another guard is alive breaks the contract.
clone_in(p, c) ==
    /\ ~ub
    /\ Alive(c)
    /\ IF p = "checked"
       THEN /\ ub' = ub
            /\ LET r == BorrowRefMut_new(borrow_state[c]) IN
               IF r.ok
               THEN /\ last' = Returned("clone", c, c, new(p, value[c]))
                    /\ borrow_state' =
                           [borrow_state EXCEPT ![c] = BorrowRefMut_drop(r.flag)]
               ELSE /\ \E m \in Msgs :
                           last' = Panicked("clone", c, c, "BorrowMutError", m)
                    /\ borrow_state' = [borrow_state EXCEPT ![c] = r.flag]
       ELSE /\ last' = Returned("clone", c, c, new(p, value[c]))
            /\ ub' = Borrowed(c)
            /\ borrow_state' = borrow_state
    /\ UNCHANGED << profile, value, guards >>

clone(c) == clone_in(profile, c)

as_ptr_Borrows(c) ==
    /\ ~ub
    /\ Alive(c)
    /\ ~Borrowed(c)
    /\ last' = Returned("as_ptr", c, c, [ptr |-> c])
    /\ UNCHANGED << profile, value, borrow_state, guards, ub >>

\* DcRefCell::as_ptr: self.0.as_ptr() of the RefCell, self.0.get() of the
\* UnsafeCell; the pointer returned is the address of cell c's value
as_ptr(c) ==
    /\ ~ub
    /\ Alive(c)
    /\ last' = Returned("as_ptr", c, c, [ptr |-> c])
    /\ UNCHANGED << profile, value, borrow_state, guards, ub >>


\* ------------------------------------------------- feature "cell_leak"
\* the Refs of cell c that were leaked: the shared claims in the flag that no
\* Ref alive holds (checked profile)
Leaked(c) ==
    IF is_reading(borrow_state[c]) THEN borrow_state[c] - Live(c, "Ref") ELSE 0

Ref_leak_Releases(g) ==
    /\ ~ub
    /\ g.kind = "Ref"
    /\ BagIn(g, guards)
    /\ guards' = Remove(guards, g)
    /\ borrow_state' = IF profile = "checked"
                       THEN [borrow_state EXCEPT ![g.cell] = BorrowRef_drop(@)]
                       ELSE borrow_state
    /\ last' = Returned("Ref_leak", g.cell, g.cell, NoRet)
    /\ UNCHANGED << profile, value, ub >>

\* Ref::leak: std::cell::Ref::leak(orig.0) forgets the guard's BorrowRef, so
\* the guard is gone and its claim stays in the flag; unchecked it is orig.0,
\* the reference the guard held.  Either way the caller is left with a plain
\* reference to the data.
Ref_leak(g) ==
    /\ ~ub
    /\ g.kind = "Ref"
    /\ BagIn(g, guards)
    /\ profile = "checked" => Leaked("a") + Leaked("b") < MaxLeaks
    /\ guards' = Remove(guards, g)
    /\ last' = Returned("Ref_leak", g.cell, g.cell, NoRet)
    /\ UNCHANGED << profile, value, borrow_state, ub >>


\* ------------------------------------------------------ replace_with_dc
\* the closures handed to replace_with_dc, FnOnce(T) -> T: rev returns the
\* reverse of the value it is given, panics panics
DcClosures == {"rev", "panics"}

\* the process was ended by std::process::abort()
Aborted == last.panic = "abort"

\* replace_with_dc(reference, closure), reference being cell.get_mut():
\*     let old_value = ptr::read(reference);
\*     let new_value = closure(old_value);
\*     ptr::write(reference, new_value);
\* With debug_assertions the closure runs inside panic::catch_unwind, and a
\* panic caught there ends the process through process::abort().  Without,
\* the panic unwinds out of replace_with_dc while the value moved out by
\* ptr::read is still in *reference: the safety contract is broken.
replace_with_dc_in(p, c) ==
    /\ ~ub
    /\ Alive(c)
    /\ ~Borrowed(c)
    /\ \E f \in DcClosures :
          IF f # "panics"
          THEN /\ value' = [value EXCEPT ![c] = Apply(f, value[c])]
               /\ last' = ReturnedOf("replace_with_dc", c, f, NoRet)
               /\ ub' = ub
          ELSE /\ value' = value
               /\ IF p = "checked"
                  THEN /\ last' = [Panicked("replace_with_dc", c, c, "abort", "")
                                      EXCEPT !.arg = f]
                       /\ ub' = ub
                  ELSE /\ last' = [Panicked("replace_with_dc", c, c, "panic", "")
                                      EXCEPT !.arg = f]
                       /\ ub' = TRUE
    /\ UNCHANGED << profile, borrow_state, guards >>

replace_with_dc_Unwinds(c) == replace_with_dc_in("unchecked", c)

replace_with_dc(c) == replace_with_dc_in(profile, c)


\* ------------------------------------------- unreachable, Option, Result
\* Result<T, E>: Ok(v) or Err(e); T and E are both instantiated as Elem
Ok(v) == [Ok |-> v]
Err(e) == [Err |-> e]
Results == {Ok(v) : v \in Elem} \cup {Err(e) : e \in Elem}
is_ok(r) == "Ok" \in DOMAIN r

\* std's messages are written with ' where std has a backquote, which a
\* string of this language cannot hold.

\* {:?} of a payload
Debug(x) == ToString(x)

\* the message of unreachable!() and of unreachable!("{}", msg)
unreachable(m) ==
    IF m = "" THEN "internal error: entered unreachable code"
    ELSE "internal error: entered unreachable code: " \o m

\* the message of Option::unwrap() (m = "") and of Option::expect(m) on None
Option_expect_failed_Fixed(m) == "called 'Option::unwrap()' on a 'None' value"

Option_expect_failed(m) ==
    IF m = "" THEN "called 'Option::unwrap()' on a 'None' value" ELSE m

\* the message of Result::unwrap() (m = "") and of Result::expect(m) on Err(e)
Result_unwrap_failed(m, e) ==
    (IF m = "" THEN "called 'Result::unwrap()' on an 'Err' value" ELSE m)
        \o ": " \o Debug(e)

\* the message of Result::unwrap_err() (m = "") and of Result::expect_err(m)
\* on Ok(t)
Result_unwrap_err_failed(m, t) ==
    (IF m = "" THEN "called 'Result::unwrap_err()' on an 'Ok' value" ELSE m)
        \o ": " \o Debug(t)

\* the call op, given arg, panicked with the message text; m is the msg of
\* its expect form ("" for the plain form)
PanickedWith(op, c, arg, text, m) ==
    [op |-> op, cell |-> c, other |-> c, ok |-> FALSE,
     panic |-> text, msg |-> m, ret |-> NoRet, arg |-> arg]

\* unreachable_dc and expect_unreachable_dc, which differ only in the message
\* m ("" for unreachable_dc).  Checked: unreachable!() panics.  Unchecked:
\* hint::unreachable_unchecked() is undefined behaviour; the call may even
\* return.
unreachable_dc_in(p) ==
    /\ ~ub
    /\ \E m \in Msgs :
          IF p = "checked"
          THEN /\ last' = PanickedWith("unreachable_dc", "a", NoRet, unreachable(m), m)
               /\ ub' = ub
          ELSE /\ last' \in {Returned("unreachable_dc", "a", "a", NoRet),
                             PanickedWith("unreachable_dc", "a", NoRet, "", m)}
               /\ ub' = TRUE
    /\ UNCHANGED << profile, value, borrow_state, guards >>

unreachable_dc_Unchecked == unreachable_dc_in("unchecked")

unreachable_dc == unreachable_dc_in(profile)

\* The common body of the Option and Result helpers.  The variant asked for
\* is present (hit): its payload is returned.  Otherwise, checked, unwrap /
\* expect panics with text; unchecked, unwrap_unchecked is undefined
\* behaviour and may return anything of the payload's type.
extract(p, op, arg, hit, payload, text, m) ==
    /\ ~ub
    /\ IF hit
       THEN /\ last' = ReturnedOf(op, "a", arg, payload)
            /\ ub' = ub
       ELSE IF p = "checked"
       THEN /\ last' = PanickedWith(op, "a", arg, text, m)
            /\ ub' = ub
       ELSE /\ \E v \in Elem :
                  last' = ReturnedOf(op, "a", arg, [payload |-> v])
            /\ ub' = TRUE
    /\ UNCHANGED << profile, value, borrow_state, guards >>

\* Option::unwrap_dc and expect_dc: self.unwrap() / self.expect(msg), or
\* self.unwrap_unchecked()
unwrap_dc_in(p) ==
    \E o \in Option(Elem), m \in Msgs :
        extract(p, "unwrap_dc", [Option |-> o], o # None,
                [payload |-> IF o # None THEN o[1] ELSE 0],
                Option_expect_failed(m), m)

unwrap_dc == unwrap_dc_in(profile)

\* Result::unwrap_dc_ok and expect_dc_ok: self.unwrap() / self.expect(msg),
\* or self.unwrap_unchecked()
unwrap_dc_ok_in(p) ==
    \E r \in Results, m \in Msgs :
        extract(p, "unwrap_dc_ok", [Result |-> r], is_ok(r),
                [payload |-> IF is_ok(r) THEN r.Ok ELSE 0],
                IF is_ok(r) THEN "" ELSE Result_unwrap_failed(m, r.Err), m)

unwrap_dc_ok == unwrap_dc_ok_in(profile)

\* Result::unwrap_dc_err and expect_dc_err: self.unwrap_err() /
\* self.expect_err(msg), or self.unwrap_err_unchecked()
unwrap_dc_err_in(p) ==
    \E r \in Results, m \in Msgs :
        extract(p, "unwrap_dc_err", [Result |-> r], ~is_ok(r),
                [payload |-> IF is_ok(r) THEN 0 ELSE r.Err],
                IF is_ok(r) THEN Result_unwrap_err_failed(m, r.Ok) ELSE "", m)

unwrap_dc_err == unwrap_dc_err_in(profile)

\* -------------------------------------------------------------- slices
\* usize indices: every index of the wrapped value and one beyond them
Usize == 0 .. Cardinality(Indices)

\* The slice a guard dereferences to: the places of the wrapped value it
\* views, in order (Ref::map(r, |v| &v[a..b]) narrows a guard to a sub-slice)
as_slice(g) ==
    [k \in 1 .. Cardinality(g.view) |->
        CHOOSE j \in g.view : Cardinality({x \in g.view : x < j}) = k - 1]

slice_get_OneBased(s, i) == IF 1 <= i /\ i <= Len(s) THEN Some(s[i]) ELSE None

\* <[U]>::get(index) and get_mut(index) for an index of type usize, counted
\* from 0
slice_get(s, i) == IF i < Len(s) THEN Some(s[i + 1]) ELSE None

\* The common body of get_dc, get_expect_dc, get_dc_mut and
\* get_expect_dc_mut on the slice behind guard g:
\* self.get(index).unwrap() / .expect(msg), or .unwrap_unchecked().  What is
\* returned is a reference to a place of the wrapped value; unchecked and
\* out of range, it is undefined behaviour and may refer to any place.
get_in(p, op, g, i) ==
    /\ ~ub
    /\ BagIn(g, guards)
    /\ LET o == slice_get(as_slice(g), i)
           arg == [slice |-> g.view, index |-> i]
       IN  IF o # None
           THEN /\ last' = ReturnedOf(op, g.cell, arg,
                               [place |-> o[1], elem |-> value[g.cell][o[1]]])
                /\ ub' = ub
           ELSE IF p = "checked"
           THEN /\ \E m \in Msgs :
                      last' = PanickedWith(op, g.cell, arg, Option_expect_failed(m), m)
                /\ ub' = ub
           ELSE /\ \E j \in Indices :
                      last' = ReturnedOf(op, g.cell, arg,
                                  [place |-> j, elem |-> value[g.cell][j]])
                /\ ub' = TRUE
    /\ UNCHANGED << profile, value, borrow_state, guards >>

\* DcSlice::get_dc and get_expect_dc, on &[U]
get_dc(g, i) == get_in(profile, "get_dc", g, i)

\* DcSlice::get_dc_mut and get_expect_dc_mut, on &mut [U]
get_dc_mut(g, i) == g.kind = "RefMut" /\ get_in(profile, "get_dc_mut", g, i)

Next ==
    \/ \E c \in Cells : borrow(c)
    \/ \E c \in Cells : borrow_mut(c)
    \/ \E g \in LiveGuards : drop_Ref(g)
    \/ \E g \in LiveGuards : drop_RefMut(g)
    \/ \E g \in LiveGuards : Ref_clone(g)
    \/ \E g \in LiveGuards : \E S \in SUBSET g.view : Ref_map(g, S)
    \/ \E g \in LiveGuards, r \in OptionViews : Ref_filter_map(g, r)
    \/ \E g \in LiveGuards : \E A \in SUBSET g.view, B \in SUBSET g.view :
            Ref_map_split(g, A, B)
    \/ \E g \in LiveGuards : \E S \in SUBSET g.view : RefMut_map(g, S)
    \/ \E g \in LiveGuards, r \in OptionViews : RefMut_filter_map(g, r)
    \/ \E g \in LiveGuards : \E A \in SUBSET g.view, B \in SUBSET g.view :
            RefMut_map_split(g, A, B)
    \/ \E g \in LiveGuards, i \in Indices, e \in Elem : deref_mut(g, i, e)
    \/ \E c \in Cells : replace(c)
    \/ \E c \in Cells : replace_with(c)
    \/ \E c \in Cells, d \in Cells : swap(c, d)
    \/ \E c \in Cells, i \in Indices, e \in Elem : get_mut(c, i, e)
    \/ \E c \in Cells : into_inner(c)

\* either build profile
Spec == Init /\ [][Next]_vars

Checked == profile = "checked"

\* a build with debug_assertions
InitChecked == Init /\ Checked

SpecChecked == InitChecked /\ [][Next]_vars

\* a build without debug_assertions
InitUnchecked == Init /\ ~Checked

SpecUnchecked == InitUnchecked /\ [][Next]_vars

\* the cell, its whole-value guards, and the operations derived from them
NextDerived ==
    \/ \E c \in Cells : borrow(c)
    \/ \E c \in Cells : borrow_mut(c)
    \/ \E g \in LiveGuards : drop_Ref(g)
    \/ \E g \in LiveGuards : drop_RefMut(g)
    \/ \E c \in Cells, d \in Cells : eq(c, d)
    \/ \E c \in Cells, d \in Cells : partial_cmp(c, d)
    \/ \E c \in Cells, d \in Cells : lt(c, d)
    \/ \E c \in Cells, d \in Cells : le(c, d)
    \/ \E c \in Cells, d \in Cells : gt(c, d)
    \/ \E c \in Cells, d \in Cells : ge(c, d)
    \/ \E c \in Cells, d \in Cells : cmp(c, d)
    \/ \E c \in Cells : clone(c)
    \/ \E c \in Cells : as_ptr(c)

SpecDerived == Init /\ [][NextDerived]_vars

\* a build with the feature "cell_leak": the cell, its whole-value guards,
\* Ref::clone and Ref::leak, replace and swap
NextLeak ==
    \/ \E c \in Cells : borrow(c)
    \/ \E c \in Cells : borrow_mut(c)
    \/ \E g \in LiveGuards : drop_Ref(g)
    \/ \E g \in LiveGuards : drop_RefMut(g)
    \/ \E g \in LiveGuards : Ref_clone(g)
    \/ \E g \in LiveGuards : Ref_leak(g)
    \/ \E c \in Cells : replace(c)
    \/ \E c \in Cells, d \in Cells : swap(c, d)

SpecLeak == Init /\ [][NextLeak]_vars

\* a program that uses replace_with_dc on what get_mut hands out; a process
\* that was aborted runs nothing more
NextDc ==
    /\ ~Aborted
    /\ \/ \E c \in Cells : borrow(c)
       \/ \E g \in LiveGuards : drop_Ref(g)
       \/ \E c \in Cells, i \in Indices, e \in Elem : get_mut(c, i, e)
       \/ \E c \in Cells : replace_with_dc(c)

SpecDc == Init /\ [][NextDc]_vars

\* a program that calls the failure helpers of lib.rs, dc_option.rs and
\* dc_result.rs, next to a cell it replaces values in
NextFail ==
    \/ unreachable_dc
    \/ unwrap_dc
    \/ unwrap_dc_ok
    \/ unwrap_dc_err
    \/ \E c \in Cells : replace(c)

\* the cell, its whole-value guards, and the operations on two cells
NextTwoCells ==
    \/ \E c \in Cells : borrow(c)
    \/ \E c \in Cells : borrow_mut(c)
    \/ \E g \in LiveGuards : drop_Ref(g)
    \/ \E g \in LiveGuards : drop_RefMut(g)
    \/ \E c \in Cells, d \in Cells : swap(c, d)
    \/ \E c \in Cells, d \in Cells : eq(c, d)
    \/ \E c \in Cells, d \in Cells : partial_cmp(c, d)
    \/ \E c \in Cells, d \in Cells : lt(c, d)
    \/ \E c \in Cells, d \in Cells : le(c, d)
    \/ \E c \in Cells, d \in Cells : gt(c, d)
    \/ \E c \in Cells, d \in Cells : ge(c, d)
    \/ \E c \in Cells, d \in Cells : cmp(c, d)

SpecTwoCells == Init /\ [][NextTwoCells]_vars

\* a program whose replace_with closures may panic, and that goes on after
\* the panic was caught
NextUnwind ==
    \/ \E c \in Cells : borrow(c)
    \/ \E c \in Cells : borrow_mut(c)
    \/ \E g \in LiveGuards : drop_Ref(g)
    \/ \E g \in LiveGuards : drop_RefMut(g)
    \/ \E c \in Cells : replace_with_any(c)

SpecUnwind == Init /\ [][NextUnwind]_vars

\* Guards are values with a scope: a program that goes on leaves the scopes
\* of the guards it holds.  The program below takes guards, by borrow,
\* borrow_mut, Ref::clone and the two map_split, and once it has begun to
\* leave their scopes it leaves them all before it takes a guard again.
Releasing == last.op \in {"drop_Ref", "drop_RefMut"} /\ NumGuards > 0

Acquire ==
    /\ ~Releasing
    /\ \/ \E c \in Cells : borrow(c)
       \/ \E c \in Cells : borrow_mut(c)
       \/ \E g \in LiveGuards : Ref_clone(g)
       \/ \E g \in LiveGuards : \E A \in SUBSET g.view, B \in SUBSET g.view :
               Ref_map_split(g, A, B)
       \/ \E g \in LiveGuards : \E A \in SUBSET g.view, B \in SUBSET g.view :
               RefMut_map_split(g, A, B)

Release ==
    \/ \E g \in LiveGuards : drop_Ref(g)
    \/ \E g \in LiveGuards : drop_RefMut(g)

NextCycle == Acquire \/ Release

\* a build with debug_assertions running such a program; a guard alive does
\* not stay alive for ever
SpecCycle == InitChecked /\ [][NextCycle]_vars /\ WF_vars(Release)

SpecFail == Init /\ [][NextFail]_vars

\* a program that reaches into the slices its guards view
NextSlice ==
    \/ \E c \in Cells : borrow(c)
    \/ \E c \in Cells : borrow_mut(c)
    \/ \E g \in LiveGuards : drop_Ref(g)
    \/ \E g \in LiveGuards : drop_RefMut(g)
    \/ \E g \in LiveGuards : \E S \in SUBSET g.view : Ref_map(g, S)
    \/ \E g \in LiveGuards : \E S \in SUBSET g.view : RefMut_map(g, S)
    \/ \E g \in LiveGuards, i \in Indices, e \in Elem : deref_mut(g, i, e)
    \/ \E g \in LiveGuards, i \in Usize : get_dc(g, i)
    \/ \E g \in LiveGuards, i \in Usize : get_dc_mut(g, i)

SpecSlice == Init /\ [][NextSlice]_vars

\* ------------------------------------------------------------ properties

\* C1: in the checked profile no cell ever has a Ref and a RefMut alive at
\* the same time.
C1_NoSharedWithExclusive ==
    Checked => \A c \in Cells : ~(Live(c, "Ref") > 0 /\ Live(c, "RefMut") > 0)

\* a borrow_mut was refused because a Ref of the cell is alive
C1_Witness ==
    /\ Checked
    /\ last.op = "borrow_mut"
    /\ ~last.ok
    /\ Live(last.cell, "Ref") > 0

\* C2: in the checked profile borrow() succeeds exactly when the cell is
\* unborrowed or shared; a successful call raises the shared count by one and
\* hands out one Ref of the whole value; a call on an exclusively borrowed
\* cell panics.
C2_BorrowSucceedsIffNotExclusive ==
    [][(Checked /\ last'.op = "borrow") =>
        LET c == last'.cell IN
        /\ last'.ok <=> borrow_state[c] >= UNUSED
        /\ last'.ok => /\ borrow_state'[c] = borrow_state[c] + 1
                       /\ guards' = Add(guards, Guard(c, "Ref", Whole))
        /\ ~last'.ok => /\ is_writing(borrow_state[c])
                        /\ last'.panic # ""]_vars

\* a second borrow() has succeeded: Shared(1) -> Shared(2)
C2_Witness ==
    /\ Checked
    /\ last.op = "borrow"
    /\ last.ok
    /\ borrow_state[last.cell] = 2

\* C3: in the checked profile borrow_mut() succeeds exactly when the cell is
\* unborrowed, and then makes it exclusive; on a shared or exclusive cell it
\* panics.
C3_BorrowMutSucceedsIffUnborrowed ==
    [][(Checked /\ last'.op = "borrow_mut") =>
        LET c == last'.cell IN
        /\ last'.ok <=> borrow_state[c] = UNUSED
        /\ last'.ok => /\ borrow_state'[c] = UNUSED - 1
                       /\ guards' = Add(guards, Guard(c, "RefMut", Whole))
        /\ ~last'.ok => last'.panic # ""]_vars

\* borrow_mut() has succeeded on an unborrowed cell
C3_Witness ==
    /\ Checked
    /\ last.op = "borrow_mut"
    /\ last.ok
    /\ borrow_state[last.cell] = UNUSED - 1
    /\ Live(last.cell, "RefMut") = 1

\* C4: in the checked profile a failed borrow, borrow_expect, borrow_mut or
\* borrow_mut_expect panics (with the caller's message for the _expect
\* forms) and changes neither borrow_state, nor the wrapped values, nor the
\* guards alive: everything later calls depend on is as before the call.
C4_FailedBorrowChangesNothing ==
    [][(Checked /\ last'.op \in {"borrow", "borrow_mut"} /\ ~last'.ok) =>
        /\ UNCHANGED << profile, value, borrow_state, guards, ub >>
        /\ last'.msg # "" => last'.panic = last'.msg
        /\ last'.msg = "" => last'.panic \in {"BorrowError", "BorrowMutError"}]_vars

\* borrow_expect("msg") has panicked with "msg" on an exclusively borrowed cell
C4_Witness ==
    /\ Checked
    /\ last.op = "borrow"
    /\ ~last.ok
    /\ last.panic = "msg"
    /\ Live(last.cell, "RefMut") > 0

\* C5: in the checked profile dropping a Ref lowers the shared count of its
\* cell by exactly one and changes no wrapped value.
C5_DropRefDecrements ==
    [][(Checked /\ last'.op = "drop_Ref") =>
        LET c == last'.cell IN
        /\ borrow_state[c] >= 1
        /\ borrow_state' = [borrow_state EXCEPT ![c] = @ - 1]
        /\ value' = value]_vars

\* one of two Refs has been dropped: Shared(2) -> Shared(1)
C5_Witness ==
    /\ Checked
    /\ last.op = "drop_Ref"
    /\ borrow_state[last.cell] = 1
    /\ Live(last.cell, "Ref") = 1

\* C6 as stated: in the checked profile dropping a RefMut, also one made by
\* RefMut::map, filter_map or map_split, leaves its cell unborrowed (so that
\* the next borrow() or borrow_mut() succeeds).
C6_DropRefMutResets ==
    (Checked /\ last.op = "drop_RefMut") => borrow_state[last.cell] = UNUSED

\* C6 amended: in the checked profile dropping a RefMut gives back exactly
\* one exclusive claim; the cell is unborrowed afterwards, and borrow() and
\* borrow_mut() then succeed, exactly when no other RefMut of the cell (the
\* other half of a RefMut::map_split) is still alive.
C6_DropRefMutReleasesOne ==
    [][\A c \in Cells : (Checked /\ last'.op = "drop_RefMut" /\ last'.cell = c) =>
        /\ is_writing(borrow_state[c])
        /\ borrow_state' = [borrow_state EXCEPT ![c] = @ + 1]
        /\ (borrow_state'[c] = UNUSED) <=> (Live(c, "RefMut")' = 0)
        /\ (Live(c, "RefMut")' = 0) =>
              /\ BorrowRef_new(borrow_state'[c]).ok
              /\ BorrowRefMut_new(borrow_state'[c]).ok
        /\ (Live(c, "RefMut")' > 0) =>
              /\ ~BorrowRef_new(borrow_state'[c]).ok
              /\ ~BorrowRefMut_new(borrow_state'[c]).ok]_vars

\* one half of a RefMut::map_split has been dropped and the other is alive:
\* the cell is still exclusively borrowed
C6_Witness ==
    /\ Checked
    /\ last.op = "drop_RefMut"
    /\ Live(last.cell, "RefMut") = 1
    /\ borrow_state[last.cell] = UNUSED - 1

\* C7 as stated: at most one RefMut of a cell is alive at any time.
C7_AtMostOneExclusive ==
    ~ub => \A c \in Cells : Live(c, "RefMut") <= 1

\* C7 amended: the RefMuts of a cell that are alive at the same time (more
\* than one only after RefMut::map_split) view pairwise disjoint parts of the
\* value: no part of it is reachable through two RefMuts.
C7_ExclusiveGuardsDisjoint ==
    ~ub => \A g \in LiveGuards : g.kind = "RefMut" =>
              /\ guards[g] > 1 => g.view = {}
              /\ \A h \in LiveGuards :
                    (h.kind = "RefMut" /\ h.cell = g.cell /\ h # g)
                        => g.view \cap h.view = {}

\* the two halves of a RefMut::map_split are alive, each viewing one element
C7_Witness ==
    /\ ~ub
    /\ \E c \in Cells :
          /\ BagIn(Guard(c, "RefMut", {1}), guards)
          /\ BagIn(Guard(c, "RefMut", {2}), guards)

\* C8 as stated: in the checked profile borrow_state is -1, 0 or a positive
\* shared count.
C8_OnlyMinusOne ==
    Checked => \A c \in Cells : borrow_state[c] >= UNUSED - 1

\* C8 amended: in the checked profile borrow_state is 0, a positive shared
\* count, or -k where k >= 1 is the number of RefMuts of the cell alive (k > 1
\* only after RefMut::map_split).
C8_NegativeCountsExclusiveGuards ==
    Checked => \A c \in Cells :
        IF Live(c, "RefMut") > 0
        THEN borrow_state[c] = UNUSED - Live(c, "RefMut")
        ELSE borrow_state[c] >= UNUSED

\* both halves of a RefMut::map_split are alive: borrow_state is -2
C8_Witness ==
    /\ Checked
    /\ \E c \in Cells : borrow_state[c] = UNUSED - 2 /\ Live(c, "RefMut") = 2

\* C9: in the checked profile, while a Ref of a cell is alive no step changes
\* the cell's wrapped value, every Ref keeps dereferencing to what it did, and
\* replace, replace_with, swap and borrow_mut on that cell fail.
C9_NoChangeWhileShared ==
    [][Checked => \A c \in Cells : Live(c, "Ref") > 0 =>
        /\ value'[c] = value[c]
        /\ \A g \in LiveGuards : (g.kind = "Ref" /\ g.cell = c) => Deref(g)' = Deref(g)
        /\ (/\ last'.op \in {"replace", "replace_with", "swap", "borrow_mut"}
            /\ c \in {last'.cell, last'.other})
              => ~last'.ok]_vars

\* two Refs from two borrow() calls are alive and a replace on their cell has
\* just failed
C9_Witness ==
    /\ Checked
    /\ last.op = "replace"
    /\ ~last.ok
    /\ BagIn(Guard(last.cell, "Ref", Whole), guards)
    /\ guards[Guard(last.cell, "Ref", Whole)] = 2

\* C10: Ref::clone never fails: whenever a Ref is alive (and memory for one
\* more guard is left) it can be cloned; the call returns, adds a second copy
\* of that Ref, changes no value, and raises the shared count by exactly one
\* in the checked profile while recording nothing in the unchecked profile.
C10_RefCloneNeverFails ==
    /\ [](\A g \in LiveGuards :
            (~ub /\ g.kind = "Ref" /\ NumGuards < MaxGuards) => ENABLED Ref_clone(g))
    /\ [][last'.op = "Ref_clone" =>
            /\ last'.ok
            /\ \E g \in LiveGuards :
                  /\ g.kind = "Ref"
                  /\ g.cell = last'.cell
                  /\ guards' = Add(guards, g)
            /\ value' = value
            /\ borrow_state' = IF Checked
                               THEN [borrow_state EXCEPT ![last'.cell] = @ + 1]
                               ELSE borrow_state]_vars

\* a Ref has been cloned in the checked profile: two equal Refs, count 2
C10_Witness ==
    /\ Checked
    /\ last.op = "Ref_clone"
    /\ guards[Guard(last.cell, "Ref", Whole)] = 2
    /\ borrow_state[last.cell] = 2

\* the claims each cell's flag records: -k for k RefMuts alive, otherwise the
\* number of Refs alive
Claims(c) ==
    IF Live(c, "RefMut") > 0 THEN UNUSED - Live(c, "RefMut") ELSE Live(c, "Ref")

\* C11: Ref::map and RefMut::map consume the guard they are given and return
\* one guard of the same cell and kind viewing a part of what it viewed;
\* borrow_state and the wrapped values are as before the call.  In the checked
\* profile the flag always equals the claims of the guards alive, mapped or
\* not, so dropping the mapped guard gives back exactly the one claim that
\* dropping the unmapped guard would have.
C11_MapKeepsClaim ==
    /\ [][last'.op \in {"Ref_map", "RefMut_map"} =>
            /\ last'.ok
            /\ borrow_state' = borrow_state
            /\ value' = value
            /\ NumGuards' = NumGuards
            /\ \E g \in LiveGuards :
                  /\ g.cell = last'.cell
                  /\ g.kind = (IF last'.op = "Ref_map" THEN "Ref" ELSE "RefMut")
                  /\ \E S \in SUBSET g.view :
                        guards' = Add(Remove(guards, g), Guard(g.cell, g.kind, S))]_vars
    /\ [][(Checked /\ last'.op \in {"drop_Ref", "drop_RefMut"}) =>
            borrow_state' = [borrow_state EXCEPT ![last'.cell] =
                                IF last'.op = "drop_Ref" THEN @ - 1 ELSE @ + 1]]_vars
    /\ [](Checked => \A c \in Cells : borrow_state[c] = Claims(c))

\* a RefMut has been mapped to the first element: it is the only guard of its
\* cell and the flag is still -1
C11_Witness ==
    /\ Checked
    /\ last.op = "RefMut_map"
    /\ guards = SetToBag({Guard(last.cell, "RefMut", {1})})
    /\ borrow_state[last.cell] = UNUSED - 1

\* C12: Ref::filter_map and RefMut::filter_map never fail and change neither
\* borrow_state nor a wrapped value.  When the closure returns None the
\* result is Err(orig): the guards alive are exactly those alive before.  When
\* it returns Some the result is Ok(one guard of the same cell and kind viewing
\* a part of what orig viewed), which takes the place of orig.  Either way
\* every cell has as many Refs and as many RefMuts as before.
C12_FilterMapKeepsClaim ==
    [][last'.op \in {"Ref_filter_map", "RefMut_filter_map"} =>
        LET k == IF last'.op = "Ref_filter_map" THEN "Ref" ELSE "RefMut" IN
        /\ last'.ok
        /\ borrow_state' = borrow_state
        /\ value' = value
        /\ NumGuards' = NumGuards
        /\ \A c \in Cells, kind \in {"Ref", "RefMut"} : Live(c, kind)' = Live(c, kind)
        /\ last'.ret \in {"Ok", "Err"}
        /\ last'.ret = "Err" => guards' = guards
        /\ last'.ret = "Ok" =>
              \E g \in LiveGuards :
                 /\ g.cell = last'.cell
                 /\ g.kind = k
                 /\ \E S \in SUBSET g.view :
                       guards' = Add(Remove(guards, g), Guard(g.cell, k, S))]_vars

\* RefMut::filter_map has returned Err(orig): the RefMut of the whole value is
\* still the only guard of its cell
C12_Witness ==
    /\ last.op = "RefMut_filter_map"
    /\ last.ret = "Err"
    /\ guards = SetToBag({Guard(last.cell, "RefMut", Whole)})
    /\ Checked => borrow_state[last.cell] = UNUSED - 1

C14_SplitHalvesBlockBorrowMut ==
    /\ [](\A g \in LiveGuards :
            (~ub /\ g.kind = "Ref" /\ NumGuards < MaxGuards) =>
                \A A \in SUBSET g.view, B \in SUBSET g.view :
                    ENABLED Ref_map_split(g, A, B))
    /\ [][last'.op = "Ref_map_split" => last'.ok]_vars
    /\ [](Checked => \A c \in Cells :
            /\ Live(c, "Ref") > 0 => ~BorrowRefMut_new(borrow_state[c]).ok
            /\ ~Borrowed(c) => borrow_state[c] = UNUSED)
    /\ [][(Checked /\ last'.op = "borrow_mut") =>
            \A c \in Cells : c = last'.cell => (last'.ok <=> ~Borrowed(c))]_vars

\* both halves of a split Ref are alive and a borrow_mut on their cell has
\* just failed
C14_Witness ==
    /\ Checked
    /\ last.op = "borrow_mut"
    /\ ~last.ok
    /\ guards = SetToBag({Guard(last.cell, "Ref", {1}), Guard(last.cell, "Ref", {2})})
    /\ borrow_state[last.cell] = 2

\* C15: a cell of a two-element sequence, borrow_mut, RefMut::map_split into
\* the two elements, a write through each half, both halves dropped,
\* into_inner.  Step by step:
\*  - a write through a RefMut changes nothing but elements that RefMut views,
\*    so every guard viewing none of them dereferences to what it did, and it
\*    changes neither the guards nor borrow_state;
\*  - in the checked profile, while a RefMut of the cell is alive (one half is
\*    enough) borrow and borrow_mut on the cell fail;
\*  - taking, splitting and dropping guards changes no wrapped value, and in
\*    the checked profile a cell without guards is unborrowed;
\*  - into_inner returns the wrapped value as the writes left it.
C15_SplitWritesAreIndependent ==
    /\ [][last'.op = "deref_mut" =>
            /\ last'.ok
            /\ UNCHANGED << guards, borrow_state >>
            /\ \E g \in LiveGuards :
                  /\ g.kind = "RefMut"
                  /\ g.cell = last'.cell
                  /\ \A c \in Cells \ {g.cell} : value'[c] = value[c]
                  /\ \A j \in Indices \ g.view : value'[g.cell][j] = value[g.cell][j]
                  /\ \A h \in LiveGuards :
                        (h.cell # g.cell \/ h.view \cap g.view = {})
                            => Deref(h)' = Deref(h)]_vars
    /\ [](Checked => \A c \in Cells :
            /\ Live(c, "RefMut") > 0 =>
                  /\ ~BorrowRef_new(borrow_state[c]).ok
                  /\ ~BorrowRefMut_new(borrow_state[c]).ok
            /\ ~Borrowed(c) => borrow_state[c] = UNUSED)
    /\ [][(Checked /\ last'.op \in {"borrow", "borrow_mut"}) =>
            \A c \in Cells :
                (c = last'.cell /\ Live(c, "RefMut") > 0) => ~last'.ok]_vars
    /\ [][last'.op \in {"borrow", "borrow_mut", "RefMut_map_split",
                         "drop_Ref", "drop_RefMut"} => value' = value]_vars
    /\ [][last'.op = "into_inner" =>
            /\ last'.ok
            /\ last'.ret = value[last'.cell]
            /\ last'.ret \in Value
            /\ borrow_state' = borrow_state]_vars

\* both halves of a split RefMut are alive, each viewing one element, and one
\* of them has just been written through
C15_Witness ==
    /\ ~ub
    /\ last.op = "deref_mut"
    /\ guards = SetToBag({Guard(last.cell, "RefMut", {1}),
                          Guard(last.cell, "RefMut", {2})})
    /\ Checked => borrow_state[last.cell] = UNUSED - 2

\* C16: get_mut and into_inner always succeed, in both profiles: wherever
\* they can be called (the cell exists and no guard borrows it) they return,
\* and they change neither borrow_state nor the guards.  get_mut changes no
\* cell but its own.  into_inner returns the wrapped value, which is the value
\* stored last: a wrapped value changes only in a replace, replace_with, swap,
\* get_mut or write through a RefMut on that cell (or when into_inner takes
\* it).
C16_GetMutIntoInnerSucceed ==
    /\ [](\A c \in Cells : (~ub /\ Alive(c) /\ ~Borrowed(c)) =>
            /\ ENABLED into_inner(c)
            /\ \A i \in Indices, e \in Elem : ENABLED get_mut(c, i, e))
    /\ [][last'.op \in {"get_mut", "into_inner"} =>
            /\ last'.ok
            /\ UNCHANGED << borrow_state, guards, ub >>
            /\ \A c \in Cells \ {last'.cell} : value'[c] = value[c]]_vars
    /\ [][last'.op = "into_inner" =>
            /\ last'.ret = value[last'.cell]
            /\ last'.ret \in Value]_vars
    /\ [][\A c \in Cells : value'[c] # value[c] =>
            /\ last'.op \in {"replace", "replace_with", "swap",
                              "get_mut", "deref_mut", "into_inner"}
            /\ c \in {last'.cell, last'.other}]_vars

\* into_inner has returned the wrapped value of a cell in the unchecked
\* profile, and the cell is gone
C16_Witness ==
    /\ ~Checked
    /\ ~ub
    /\ last.op = "into_inner"
    /\ last.ret = [i \in Indices |-> 7]
    /\ ~Alive(last.cell)

\* C17: replace(v) on a cell without guards, in either profile, returns the
\* value the cell held before the call, leaves v as the wrapped value, leaves
\* the cell unborrowed and touches neither the other cell nor any guard; any v
\* can be given.  In the checked profile replace on a cell with a guard alive,
\* Ref or RefMut, panics and changes nothing.
C17_ReplaceReturnsOld ==
    /\ [](\A c \in Cells : (~ub /\ Alive(c) /\ ~Borrowed(c)) =>
            \A t \in Value : ENABLED (replace(c) /\ last'.ok /\ last'.arg = t))
    /\ [][last'.op = "replace" =>
            \A c \in Cells : c = last'.cell =>
                /\ ~Borrowed(c) =>
                      /\ last'.ok
                      /\ last'.ret = value[c]
                      /\ last'.arg \in Value
                      /\ value' = [value EXCEPT ![c] = last'.arg]
                      /\ borrow_state'[c] = UNUSED
                      /\ UNCHANGED << borrow_state, guards, ub >>
                /\ (Checked /\ Borrowed(c)) =>
                      /\ ~last'.ok
                      /\ last'.panic = (IF last'.msg = "" THEN "BorrowMutError"
                                                          ELSE last'.msg)
                      /\ UNCHANGED << value, borrow_state, guards, ub >>]_vars

\* replace has swapped the pair (5, 7) for the pair (7, 5) and returned (5, 7)
C17_Witness ==
    /\ last.op = "replace"
    /\ last.ok
    /\ last.ret = [i \in Indices |-> IF i = 1 THEN 5 ELSE 7]
    /\ last.arg = [i \in Indices |-> IF i = 1 THEN 7 ELSE 5]
    /\ value[last.cell] = last.arg
    /\ Checked
    /\ borrow_state[last.cell] = UNUSED

\* C18: replace_with(f) on a cell without guards, with a closure that leaves
\* the cell alone, in either profile: f is applied once to the wrapped value,
\* what f returns becomes the wrapped value, the call returns what the cell
\* held when f returned (f may have written through its &mut), and the cell
\* is unborrowed afterwards; any such f can be given.  In the checked profile
\* the cell is exclusively borrowed while f runs: a closure calling borrow,
\* borrow_mut, replace or swap on it panics with that call's error, and the
\* cell is left as it was, unborrowed; and replace_with on a cell with a guard
\* alive panics before f is called.
C18_ReplaceWithRunsUnderBorrow ==
    /\ [](\A c \in Cells : (~ub /\ Alive(c) /\ ~Borrowed(c)) =>
            \A f \in Closures : ENABLED (replace_with(c) /\ last'.arg = f))
    /\ [][last'.op = "replace_with" =>
            \A c \in Cells : c = last'.cell =>
                /\ (~Borrowed(c) /\ last'.arg \notin Reentrant) =>
                      /\ last'.ok
                      /\ last'.arg \in Closures
                      /\ value' = [value EXCEPT ![c] = Apply(last'.arg, value[c])]
                      /\ last'.ret = Through(last'.arg, value[c])
                      /\ borrow_state'[c] = UNUSED
                      /\ UNCHANGED << borrow_state, guards, ub >>
                /\ (Checked /\ ~Borrowed(c) /\ last'.arg \in Reentrant) =>
                      /\ ~last'.ok
                      /\ last'.panic = (IF last'.arg = "re_borrow" THEN "BorrowError"
                                                                   ELSE "BorrowMutError")
                      /\ borrow_state'[c] = UNUSED
                      /\ UNCHANGED << value, borrow_state, guards, ub >>
                /\ (Checked /\ Borrowed(c)) =>
                      /\ ~last'.ok
                      /\ last'.arg = NoRet
                      /\ last'.panic = (IF last'.msg = "" THEN "BorrowMutError"
                                                          ELSE last'.msg)
                      /\ UNCHANGED << value, borrow_state, guards, ub >>]_vars

\* replace_with(bump) on the pair (5, 7): bump wrote (7, 7) through its &mut
\* and returned (7, 5); the call returned (7, 7) and the cell holds (7, 5)
C18_Witness ==
    /\ Checked
    /\ last.op = "replace_with"
    /\ last.ok
    /\ last.arg = "bump"
    /\ last.ret = [i \in Indices |-> 7]
    /\ value[last.cell] = [i \in Indices |-> IF i = 1 THEN 7 ELSE 5]
    /\ borrow_state[last.cell] = UNUSED

\* C19: swap between two distinct cells without guards, in either profile,
\* returns, leaves each cell holding what the other held, leaves both
\* unborrowed and touches no guard; it can always be called on such cells.  In
\* the checked profile swap panics and changes nothing when either cell has a
\* guard alive.
C19_SwapExchanges ==
    /\ [](\A c \in Cells : \A d \in Cells \ {c} :
            (~ub /\ Alive(c) /\ Alive(d) /\ ~Borrowed(c) /\ ~Borrowed(d)) =>
                ENABLED (swap(c, d) /\ last'.ok))
    /\ [][last'.op = "swap" =>
            \A c \in Cells : \A d \in Cells \ {c} : (c = last'.cell /\ d = last'.other) =>
                /\ (~Borrowed(c) /\ ~Borrowed(d)) =>
                      /\ last'.ok
                      /\ value'[c] = value[d]
                      /\ value'[d] = value[c]
                      /\ borrow_state'[c] = UNUSED
                      /\ borrow_state'[d] = UNUSED
                      /\ UNCHANGED << borrow_state, guards, ub >>
                /\ (Checked /\ (Borrowed(c) \/ Borrowed(d))) =>
                      /\ ~last'.ok
                      /\ last'.panic = (IF last'.msg = "" THEN "BorrowMutError"
                                                          ELSE last'.msg)
                      /\ UNCHANGED << value, borrow_state, guards, ub >>]_vars

\* two cells holding different values have been swapped
C19_Witness ==
    /\ Checked
    /\ last.op = "swap"
    /\ last.ok
    /\ last.cell # last.other
    /\ value[last.cell] = [i \in Indices |-> IF i = 1 THEN 7 ELSE 5]
    /\ value[last.other] = [i \in Indices |-> 5]
    /\ \A c \in Cells : borrow_state[c] = UNUSED

\* C20: in the checked profile swap and swap_expect of a cell with itself
\* can be called and always panic, on BorrowMutError or with the caller's
\* message, also when the cell has no guard alive; the wrapped values,
\* borrow_state and the guards are as before the call.
C20_SelfSwapPanics ==
    /\ [](\A c \in Cells : (Checked /\ Alive(c)) =>
            ENABLED (swap(c, c) /\ ~last'.ok /\ last'.msg # ""))
    /\ [][(Checked /\ last'.op = "swap" /\ last'.cell = last'.other) =>
            /\ ~last'.ok
            /\ last'.panic = (IF last'.msg = "" THEN "BorrowMutError" ELSE last'.msg)
            /\ UNCHANGED << value, borrow_state, guards, ub >>]_vars

\* swap_expect("msg") of a cell without guards with itself has panicked with
\* "msg", and the cell is unborrowed
C20_Witness ==
    /\ Checked
    /\ last.op = "swap"
    /\ last.cell = last.other
    /\ ~last.ok
    /\ last.panic = "msg"
    /\ ~Borrowed(last.cell)
    /\ borrow_state[last.cell] = UNUSED

C22_LeTestsLessOrEqual ==
    [][(last'.op = "le" /\ last'.ok /\ guards = EmptyBag) =>
        \A c \in Cells, d \in Cells : (c = last'.cell /\ d = last'.other) =>
            LET x == value[c]
                y == value[d]
                less == x[1] < y[1] \/ (x[1] = y[1] /\ x[2] < y[2])
            IN  last'.ret = [bool |-> less \/ x = y]]_vars

\* C22 as coded: le and le_expect return what < makes of the two values; on
\* equal values they return false.
C22_LeTestsLessThan ==
    [][(last'.op = "le" /\ last'.ok) =>
        \A c \in Cells, d \in Cells : (c = last'.cell /\ d = last'.other) =>
            LET x == value[c]
                y == value[d]
                less == x[1] < y[1] \/ (x[1] = y[1] /\ x[2] < y[2])
            IN  /\ last'.ret = [bool |-> less]
                /\ x = y => last'.ret = [bool |-> FALSE]]_vars

\* le of two cells without guards that hold the same value has returned false
C22_Witness ==
    /\ last.op = "le"
    /\ last.ok
    /\ last.cell = "a"
    /\ last.other = "b"
    /\ guards = EmptyBag
    /\ value["a"] = << 5, 7 >>
    /\ value["b"] = << 5, 7 >>
    /\ last.ret = [bool |-> FALSE]

\* C23 as stated: gt and gt_expect test "greater than", ge and ge_expect
\* "greater than or equal": on two cells without guards, in either profile,
\* gt returns true exactly when the value of the first is greater than the
\* value of the second, and ge exactly when it is greater or equal.
C23_GtGeTestGreater ==
    [][(last'.op \in {"gt", "ge"} /\ last'.ok /\ guards = EmptyBag) =>
        \A c \in Cells, d \in Cells : (c = last'.cell /\ d = last'.other) =>
            LET x == value[c]
                y == value[d]
                greater == x[1] > y[1] \/ (x[1] = y[1] /\ x[2] > y[2])
            IN  last'.ret = [bool |-> IF last'.op = "gt" THEN greater
                                      ELSE greater \/ x = y]]_vars

\* C23 as coded: gt, ge and their _expect forms return what < makes of the
\* two values.
C23_GtGeTestLessThan ==
    [][(last'.op \in {"gt", "ge"} /\ last'.ok) =>
        \A c \in Cells, d \in Cells : (c = last'.cell /\ d = last'.other) =>
            LET x == value[c]
                y == value[d]
                less == x[1] < y[1] \/ (x[1] = y[1] /\ x[2] < y[2])
            IN  last'.ret = [bool |-> less]]_vars

\* gt of two cells without guards, the first holding the greater value, has
\* returned false
C23_Witness ==
    /\ last.op = "gt"
    /\ last.ok
    /\ last.cell = "a"
    /\ last.other = "b"
    /\ guards = EmptyBag
    /\ value["a"] = << 7, 5 >>
    /\ value["b"] = << 5, 7 >>
    /\ last.ret = [bool |-> FALSE]

\* C24 as stated: in the checked profile clone and clone_expect panic only if
\* a RefMut of the cell is alive; on a cell without guards or with only Refs
\* alive the call returns a new unborrowed cell wrapping a copy of the value,
\* and the cell cloned is as before.
C24_ClonePanicsOnlyIfExclusive ==
    [][(Checked /\ last'.op = "clone") =>
        \A c \in Cells : c = last'.cell =>
            /\ last'.ok <=> Live(c, "RefMut") = 0
            /\ last'.ok => last'.ret = [value |-> value[c], borrow_state |-> UNUSED]
            /\ UNCHANGED << value, borrow_state, guards >>]_vars

\* C24 as coded: in the checked profile clone and clone_expect panic, on
\* BorrowMutError or with the caller's message, whenever any guard of the
\* cell is alive, a Ref as well as a RefMut; on a cell without guards they
\* return a new unborrowed cell wrapping a copy of the value; either way the
\* cell cloned is as before.
C24_ClonePanicsIfBorrowed ==
    [][(Checked /\ last'.op = "clone") =>
        \A c \in Cells : c = last'.cell =>
            /\ last'.ok <=> ~Borrowed(c)
            /\ last'.ok => last'.ret = [value |-> value[c], borrow_state |-> UNUSED]
            /\ ~last'.ok =>
                  last'.panic = (IF last'.msg = "" THEN "BorrowMutError"
                                 ELSE last'.msg)
            /\ UNCHANGED << value, borrow_state, guards >>]_vars

\* clone of a cell with one Ref and no RefMut alive has panicked on
\* BorrowMutError
C24_Witness ==
    /\ Checked
    /\ last.op = "clone"
    /\ ~last.ok
    /\ last.panic = "BorrowMutError"
    /\ Live(last.cell, "Ref") = 1
    /\ Live(last.cell, "RefMut") = 0
    /\ borrow_state[last.cell] = 1

\* C26: as_ptr can be called on a cell in every borrow state, unborrowed,
\* with Refs alive or with a RefMut alive, in both profiles; it always returns
\* (the pointer to the cell's value) and changes neither borrow_state nor the
\* value nor the guards.
C26_AsPtrAlwaysSucceeds ==
    /\ [](\A c \in Cells : (Alive(c) /\ ~ub) => ENABLED as_ptr(c))
    /\ [][last'.op = "as_ptr" =>
            /\ last'.ok
            /\ last'.ret = [ptr |-> last'.cell]
            /\ UNCHANGED << profile, value, borrow_state, guards, ub >>]_vars

\* as_ptr has returned on a checked cell whose RefMut is alive
C26_Witness ==
    /\ Checked
    /\ last.op = "as_ptr"
    /\ last.ok
    /\ Live(last.cell, "RefMut") = 1
    /\ borrow_state[last.cell] = -1

\* C25: in the checked profile, once a Ref of a cell has been leaked the cell
\* stays leaked (no step lowers the number of its leaked Refs), and as long
\* as it is leaked: its borrow_state is positive, so it appears immutably
\* borrowed and is never unborrowed; borrow_mut, replace and swap on it (swap
\* also as the other cell) can be called and always panic, changing nothing;
\* borrow can be called and returns a Ref.
C25_LeakedCellStaysShared ==
    /\ [][(Checked /\ last'.op = "Ref_leak") =>
            \A c \in Cells : c = last'.cell =>
                /\ Leaked(c)' = Leaked(c) + 1
                /\ borrow_state' = borrow_state]_vars
    /\ [][Checked => \A c \in Cells : Leaked(c)' >= Leaked(c)]_vars
    /\ [](\A c \in Cells : (Checked /\ Leaked(c) > 0) =>
            /\ borrow_state[c] > UNUSED
            /\ ENABLED (borrow_mut(c) /\ ~last'.ok)
            /\ ENABLED (replace(c) /\ ~last'.ok)
            /\ \A d \in Cells : /\ ENABLED (swap(c, d) /\ ~last'.ok)
                                /\ ENABLED (swap(d, c) /\ ~last'.ok)
            /\ NumGuards < MaxGuards => ENABLED (borrow(c) /\ last'.ok))
    /\ [][(Checked /\ last'.op \in {"borrow_mut", "replace", "swap"}) =>
            \A c \in Cells, d \in Cells :
                (c = last'.cell /\ d = last'.other
                 /\ (Leaked(c) > 0 \/ Leaked(d) > 0)) =>
                    /\ ~last'.ok
                    /\ UNCHANGED << value, borrow_state, guards >>]_vars
    /\ [][(Checked /\ last'.op = "borrow") =>
            \A c \in Cells : (c = last'.cell /\ Leaked(c) > 0) =>
                /\ last'.ok
                /\ borrow_state'[c] = borrow_state[c] + 1]_vars

\* borrow_mut has panicked on a checked cell that has no guard alive and one
\* leaked Ref
C25_Witness ==
    /\ Checked
    /\ last.op = "borrow_mut"
    /\ ~last.ok
    /\ last.panic = "BorrowMutError"
    /\ ~Borrowed(last.cell)
    /\ Leaked(last.cell) = 1
    /\ borrow_state[last.cell] = 1

\* the call recorded in l, as a build without debug_assertions runs it
Unchecked(l) ==
    CASE l.op = "borrow" -> borrow_in("unchecked", l.cell)
      [] l.op = "borrow_mut" -> borrow_mut_in("unchecked", l.cell)
      [] l.op = "drop_Ref" -> \E g \in LiveGuards : drop_Ref_in("unchecked", g)
      [] l.op = "drop_RefMut" -> \E g \in LiveGuards : drop_RefMut_in("unchecked", g)
      [] l.op = "Ref_clone" -> \E g \in LiveGuards : Ref_clone_in("unchecked", g)
      [] l.op = "Ref_map" ->
            \E g \in LiveGuards : \E S \in SUBSET g.view : Ref_map(g, S)
      [] l.op = "Ref_filter_map" ->
            \E g \in LiveGuards, r \in OptionViews : Ref_filter_map(g, r)
      [] l.op = "Ref_map_split" ->
            \E g \in LiveGuards : \E A \in SUBSET g.view, B \in SUBSET g.view :
                Ref_map_split_in("unchecked", g, A, B)
      [] l.op = "RefMut_map" ->
            \E g \in LiveGuards : \E S \in SUBSET g.view : RefMut_map(g, S)
      [] l.op = "RefMut_filter_map" ->
            \E g \in LiveGuards, r \in OptionViews : RefMut_filter_map(g, r)
      [] l.op = "RefMut_map_split" ->
            \E g \in LiveGuards : \E A \in SUBSET g.view, B \in SUBSET g.view :
                RefMut_map_split_in("unchecked", g, A, B)
      [] l.op = "deref_mut" ->
            \E g \in LiveGuards, i \in Indices, e \in Elem : deref_mut(g, i, e)
      [] l.op = "replace" -> replace_in("unchecked", l.cell)
      [] l.op = "replace_with" -> replace_with_in("unchecked", l.cell)
      [] l.op = "swap" -> swap_in("unchecked", l.cell, l.other)
      [] l.op = "get_mut" ->
            \E i \in Indices, e \in Elem : get_mut(l.cell, i, e)
      [] l.op = "into_inner" -> into_inner(l.cell)
      [] OTHER -> FALSE

C28_UncheckedKeepsNoBorrowState ==
    /\ [](~Checked => borrow_state = [c \in Cells |-> UNUSED])
    /\ [](\A c \in Cells :
            (~Checked /\ ~ub /\ Alive(c) /\ NumGuards < MaxGuards) =>
                /\ ENABLED (/\ borrow(c)
                            /\ last'.ok
                            /\ guards' = Add(guards, Guard(c, "Ref", Whole)))
                /\ ENABLED (/\ borrow_mut(c)
                            /\ last'.ok
                            /\ guards' = Add(guards, Guard(c, "RefMut", Whole))))
    /\ [][~Checked => (last'.ok /\ last'.panic = "" /\ last'.msg = "")]_vars
    /\ [][(~Checked /\ last'.op \in {"borrow", "borrow_mut"}) =>
            /\ NumGuards' = NumGuards + 1
            /\ UNCHANGED << value, borrow_state >>]_vars
    /\ [][(~Checked /\ last'.op \in {"drop_Ref", "drop_RefMut"}) =>
            /\ NumGuards' = NumGuards - 1
            /\ UNCHANGED << value, borrow_state, ub >>]_vars

\* unchecked: borrow_mut has returned a RefMut of a cell whose Ref is alive
C28_Witness ==
    /\ ~Checked
    /\ last.op = "borrow_mut"
    /\ last.ok
    /\ Live(last.cell, "Ref") = 1
    /\ Live(last.cell, "RefMut") = 1
    /\ borrow_state[last.cell] = UNUSED

\* C29: the end-to-end scenario in the checked profile, on a cell c beside
\* which no other guard is alive.  From DcRefCell::new(5) (T being a pair,
\* the value <<5, 5>>): borrow_mut returns a RefMut; through it 7 is written
\* (both elements); the RefMut is dropped and the cell is unborrowed; borrow
\* returns a Ref, which reads 7; Ref::clone returns a second Ref, the count
\* being 2, and both read 7; one Ref dropped leaves the count 1, the other
\* dropped leaves the cell unborrowed, holding 7.  Each step is possible from
\* the state the step before it leaves.
C29_EndToEnd ==
    \A c \in Cells :
        LET RM == Guard(c, "RefMut", Whole)
            R  == Guard(c, "Ref", Whole)
            At(v, gs, b) == /\ Checked
                            /\ value[c] = v
                            /\ guards = gs
                            /\ borrow_state[c] = b
        IN  /\ At(<< 5, 5 >>, EmptyBag, UNUSED) =>
                  ENABLED (/\ borrow_mut(c)
                           /\ last'.ok
                           /\ At(<< 5, 5 >>, SetToBag({RM}), -1)')
            /\ At(<< 5, 5 >>, SetToBag({RM}), -1) =>
                  ENABLED (/\ deref_mut(RM, 1, 7)
                           /\ At(<< 7, 5 >>, SetToBag({RM}), -1)')
            /\ At(<< 7, 5 >>, SetToBag({RM}), -1) =>
                  ENABLED (/\ deref_mut(RM, 2, 7)
                           /\ At(<< 7, 7 >>, SetToBag({RM}), -1)')
            /\ At(<< 7, 7 >>, SetToBag({RM}), -1) =>
                  ENABLED (/\ drop_RefMut(RM)
                           /\ At(<< 7, 7 >>, EmptyBag, UNUSED)')
            /\ At(<< 7, 7 >>, EmptyBag, UNUSED) =>
                  ENABLED (/\ borrow(c)
                           /\ last'.ok
                           /\ At(<< 7, 7 >>, SetToBag({R}), 1)')
            /\ At(<< 7, 7 >>, SetToBag({R}), 1) =>
                  /\ Deref(R) = << 7, 7 >>
                  /\ ENABLED (/\ Ref_clone(R)
                              /\ last'.ok
                              /\ At(<< 7, 7 >>, Add(SetToBag({R}), R), 2)')
            /\ At(<< 7, 7 >>, Add(SetToBag({R}), R), 2) =>
                  /\ \A g \in LiveGuards : Deref(g) = << 7, 7 >>
                  /\ ENABLED (/\ drop_Ref(R)
                              /\ At(<< 7, 7 >>, SetToBag({R}), 1)')
            /\ At(<< 7, 7 >>, SetToBag({R}), 1) =>
                  ENABLED (/\ drop_Ref(R)
                           /\ At(<< 7, 7 >>, EmptyBag, UNUSED)')

\* checked: Ref::clone has returned on a cell holding <<7, 7>>; two Refs of
\* the whole value are alive and the count is 2
C29_Witness ==
    /\ Checked
    /\ last.op = "Ref_clone"
    /\ last.ok
    /\ value[last.cell] = << 7, 7 >>
    /\ guards = Add(SetToBag({Guard(last.cell, "Ref", Whole)}),
                    Guard(last.cell, "Ref", Whole))
    /\ borrow_state[last.cell] = 2

\* C30: replace_with_dc(reference, closure) with a closure that returns, in
\* either profile, returns and leaves in the reference what the closure made
\* of the value that was there.  With a closure that panics: in the checked
\* profile the process is aborted, the panic does not unwind out of the call
\* and nothing runs afterwards; in the unchecked profile the panic unwinds
\* out of the call, with nothing to guard the reference (the safety contract
\* is broken).
C30_ReplaceWithDcAbortsOnPanic ==
    /\ [][last'.op = "replace_with_dc" =>
            \A c \in Cells : c = last'.cell =>
                IF last'.arg = "rev"
                THEN /\ last'.ok
                     /\ value' = [value EXCEPT ![c] = [i \in Indices |-> value[c][3 - i]]]
                     /\ UNCHANGED << borrow_state, guards, ub >>
                ELSE /\ last'.arg = "panics"
                     /\ ~last'.ok
                     /\ IF Checked THEN Aborted' /\ ~ub'
                                   ELSE last'.panic = "panic" /\ ~Aborted' /\ ub']_vars
    /\ [](Aborted => (Checked /\ ~ENABLED NextDc))
    /\ [](\A c \in Cells : (~ub /\ ~Aborted /\ ~Borrowed(c)) =>
            /\ ENABLED (replace_with_dc(c) /\ last'.arg = "rev")
            /\ ENABLED (replace_with_dc(c) /\ last'.arg = "panics"))

\* checked: replace_with_dc with a closure that panics has aborted the process
C30_Witness ==
    /\ Checked
    /\ last.op = "replace_with_dc"
    /\ last.arg = "panics"
    /\ Aborted
    /\ ~ub

\* the panic message text holds the caller's message m
Carries(text, m) ==
    \E i \in 1 .. (Len(text) - Len(m) + 1) : SubSeq(text, i, i + Len(m) - 1) = m

\* C31: in the checked profile unreachable_dc and expect_unreachable_dc can
\* always be called, and every call ends in a panic that is reported: it does
\* not return, it is not undefined behaviour, it changes nothing else, and
\* the panic of expect_unreachable_dc(msg) carries msg.
C31_UnreachablePanics ==
    /\ [][(Checked /\ last'.op = "unreachable_dc") =>
            /\ ~last'.ok
            /\ last'.panic # ""
            /\ ~ub'
            /\ last'.msg # "" => Carries(last'.panic, last'.msg)
            /\ UNCHANGED << value, borrow_state, guards >>]_vars
    /\ []((Checked /\ ~ub) =>
            /\ ENABLED (unreachable_dc /\ last'.msg = "")
            /\ ENABLED (unreachable_dc /\ last'.msg = "msg"))

\* checked: expect_unreachable_dc("msg") has panicked with its message
C31_Witness ==
    /\ Checked
    /\ last.op = "unreachable_dc"
    /\ ~last.ok
    /\ last.msg = "msg"
    /\ last.panic = "internal error: entered unreachable code: msg"
    /\ ~ub

\* C32: in both profiles the Option and Result helpers, plain and expect
\* forms, return the payload of the variant they are named after when self
\* is that variant (unwrap_dc on Some(v): v; unwrap_dc_ok on Ok(v): v;
\* unwrap_dc_err on Err(e): e), without undefined behaviour.  In the checked
\* profile, on the other variant each panics, which is reported, and the
\* panic of an expect form carries the caller's message.  Nothing else
\* changes.
C32_HelpersExtractOrPanic ==
    /\ [][last'.op \in {"unwrap_dc", "unwrap_dc_ok", "unwrap_dc_err"} =>
            LET self == last'.arg
                hit == CASE last'.op = "unwrap_dc" -> self.Option # None
                         [] last'.op = "unwrap_dc_ok" -> "Ok" \in DOMAIN self.Result
                         [] last'.op = "unwrap_dc_err" -> "Err" \in DOMAIN self.Result
            IN  /\ hit =>
                     /\ last'.ok
                     /\ ~ub'
                     /\ last'.op = "unwrap_dc" => self.Option = << last'.ret.payload >>
                     /\ last'.op = "unwrap_dc_ok" => self.Result = [Ok |-> last'.ret.payload]
                     /\ last'.op = "unwrap_dc_err" => self.Result = [Err |-> last'.ret.payload]
                /\ (~hit /\ Checked) =>
                     /\ ~last'.ok
                     /\ ~ub'
                     /\ last'.panic # ""
                     /\ last'.msg # "" => Carries(last'.panic, last'.msg)
                /\ UNCHANGED << value, borrow_state, guards >>]_vars
    /\ [](~ub =>
            /\ \A o \in Option(Elem) :
                  ENABLED (unwrap_dc /\ last'.arg = [Option |-> o])
            /\ \A r \in Results :
                  /\ ENABLED (unwrap_dc_ok /\ last'.arg = [Result |-> r])
                  /\ ENABLED (unwrap_dc_err /\ last'.arg = [Result |-> r]))
    /\ []((Checked /\ ~ub) => \A m \in Msgs :
            /\ ENABLED (unwrap_dc /\ ~last'.ok /\ last'.msg = m)
            /\ ENABLED (unwrap_dc_ok /\ ~last'.ok /\ last'.msg = m)
            /\ ENABLED (unwrap_dc_err /\ ~last'.ok /\ last'.msg = m))

\* checked: expect_dc_ok("msg") on Err(7) has panicked with "msg: 7", and
\* this is not undefined behaviour
C32_Witness ==
    /\ Checked
    /\ last.op = "unwrap_dc_ok"
    /\ last.arg = [Result |-> [Err |-> 7]]
    /\ ~last.ok
    /\ last.msg = "msg"
    /\ last.panic = "msg: 7"
    /\ ~ub

\* C33: get_dc, get_expect_dc, get_dc_mut and get_expect_dc_mut can be called
\* on every slice with every index.  In both profiles, with an index below
\* the slice's length they return, without undefined behaviour, a reference
\* to the element at that index: the place of the slice with exactly index
\* places before it, and the element stored there.  In the checked profile,
\* with any other index they panic, which is reported, the panic of an
\* expect form carrying the caller's message.  The slice, the flags and the
\* guards are left as they were in every case.
C33_GetReturnsElementOrPanics ==
    /\ [][last'.op \in {"get_dc", "get_dc_mut"} =>
            LET c == last'.cell
                S == last'.arg.slice
                i == last'.arg.index
            IN  /\ i < Cardinality(S) =>
                     /\ last'.ok
                     /\ ~ub'
                     /\ last'.ret.place \in S
                     /\ Cardinality({x \in S : x < last'.ret.place}) = i
                     /\ last'.ret.elem = value[c][last'.ret.place]
                /\ (i >= Cardinality(S) /\ Checked) =>
                     /\ ~last'.ok
                     /\ ~ub'
                     /\ last'.panic # ""
                     /\ last'.msg # "" => Carries(last'.panic, last'.msg)
                /\ UNCHANGED << value, borrow_state, guards >>]_vars
    /\ [](~ub => \A g \in LiveGuards, i \in Usize :
            /\ ENABLED (get_dc(g, i) /\ last'.arg = [slice |-> g.view, index |-> i])
            /\ g.kind = "RefMut" =>
                  ENABLED (get_dc_mut(g, i) /\ last'.arg = [slice |-> g.view, index |-> i]))

\* checked: on a slice that is the second element alone, get_dc_mut(0) has
\* returned that element and get_expect_dc(1, "msg") would panic
C33_Witness ==
    /\ Checked
    /\ last.op = "get_dc_mut"
    /\ last.ok
    /\ last.arg = [slice |-> {2}, index |-> 0]
    /\ last.ret = [place |-> 2, elem |-> value[last.cell][2]]
    /\ ENABLED (get_dc(Guard(last.cell, "RefMut", {2}), 1) /\ last'.panic = "msg")

\* C34: in the checked profile (no Ref is ever leaked here), in every
\* reachable state each cell's flag is UNUSED exactly when no guard of the
\* cell is alive, and a flag above UNUSED is the number of Refs of the cell
\* alive, whichever of borrow, Ref::clone, map, filter_map and map_split
\* produced them, with no RefMut of the cell alive.
C34_FlagCountsLiveGuards ==
    Checked => \A c \in Cells :
        /\ borrow_state[c] = UNUSED <=> ~Borrowed(c)
        /\ is_reading(borrow_state[c]) =>
              /\ borrow_state[c] = Live(c, "Ref")
              /\ Live(c, "RefMut") = 0

\* a cell is shared by two Refs of parts of its value, the two halves that
\* Ref::map_split made of one Ref
C34_Witness ==
    /\ Checked
    /\ last.op = "Ref_map_split"
    /\ last.ok
    /\ borrow_state[last.cell] = 2
    /\ Live(last.cell, "Ref") = 2
    /\ \A g \in LiveGuards : g.cell = last.cell => g.view # Whole

\* the operations that compare two cells
Comparisons == {"eq", "partial_cmp", "cmp", "lt", "le", "gt", "ge"}

\* C35: in the checked profile, a call on two cells (swap, eq, partial_cmp,
\* cmp, lt, le, gt, ge, plain or _expect) whose guard on the first cell is
\* granted and whose guard on the second cell (the same cell, for a swap of
\* a cell with itself) is refused panics, and once the panic has left the
\* call the flags of both cells, the wrapped values and the guards alive are
\* what they were before the call: the guard taken on the first cell was
\* released.
C35_FailedSecondGuardReleasesFirst ==
    [][(/\ Checked
        /\ \/ /\ last'.op = "swap"
              /\ borrow_state[last'.cell] = UNUSED
              /\ \/ last'.other = last'.cell
                 \/ borrow_state[last'.other] # UNUSED
           \/ /\ last'.op \in Comparisons
              /\ ~is_writing(borrow_state[last'.cell])
              /\ last'.other # last'.cell
              /\ is_writing(borrow_state[last'.other])) =>
        /\ ~last'.ok
        /\ last'.panic = (IF last'.msg # "" THEN last'.msg
                          ELSE IF last'.op = "swap" THEN "BorrowMutError"
                          ELSE "BorrowError")
        /\ UNCHANGED << value, borrow_state, guards, ub >>]_vars

\* eq of a cell that one Ref shares with a cell that is exclusively borrowed
\* has panicked; the first cell's count is one as before
C35_Witness ==
    /\ Checked
    /\ last.op = "eq"
    /\ ~last.ok
    /\ last.cell # last.other
    /\ borrow_state[last.cell] = 1
    /\ Live(last.cell, "Ref") = 1
    /\ borrow_state[last.other] = UNUSED - 1

\* C36: in the checked profile replace_with and replace_with_expect can be
\* given a closure that panics.  The panic is the closure's own and leaves
\* the call: the process is not aborted and the program goes on.  The
\* exclusive guard the call had taken is released, so the cell is unborrowed
\* again (the call was possible only on an unborrowed cell) and can be
\* borrowed exclusively at once.  The cell holds a value of its type: the
\* value it held before the call if the closure wrote nothing through its
\* argument, and otherwise that value with the closure's writes.
C36_ClosurePanicUnwindsAndReleases ==
    /\ [][(Checked /\ last'.op = "replace_with" /\ last'.arg \in PanickingClosures) =>
            \A c \in Cells : c = last'.cell =>
                /\ ~last'.ok
                /\ last'.panic = "panic"
                /\ ~Aborted'
                /\ ~ub'
                /\ borrow_state[c] = UNUSED
                /\ borrow_state'[c] = UNUSED
                /\ UNCHANGED << borrow_state, guards >>
                /\ value'[c] \in Value
                /\ last'.arg = "panics" => value' = value
                /\ last'.arg = "bump_panics" =>
                      value' = [value EXCEPT ![c] = << value[c][2], value[c][2] >>]]_vars
    /\ []((/\ Checked
           /\ last.op = "replace_with"
           /\ last.arg \in PanickingClosures
           /\ NumGuards < MaxGuards) =>
            ENABLED (borrow_mut(last.cell) /\ last'.ok))
    /\ [](\A c \in Cells : (Checked /\ ~Borrowed(c)) =>
            \A f \in PanickingClosures :
                ENABLED (replace_with_any(c) /\ last'.arg = f))

\* checked: replace_with of a closure that wrote 7 over the 5 of (5, 7) and
\* then panicked; the cell is unborrowed and holds (7, 7)
C36_Witness ==
    /\ Checked
    /\ last.op = "replace_with"
    /\ last.arg = "bump_panics"
    /\ ~last.ok
    /\ last.panic = "panic"
    /\ borrow_state[last.cell] = UNUSED
    /\ ~Borrowed(last.cell)
    /\ value[last.cell] = << 7, 7 >>

====
